---- MODULE Spec2Model ----
(***************************************************************************)
(* BacktestExecClient (src/unnamed/part_001): the simulated execution      *)
(* client of the backtest engine.  Commands and ticks are the inputs; the  *)
(* event log is what the client hands to the execution engine's            *)
(* handle_event.  Prices are integers in units of the instrument's tick    *)
(* size, money is an integer, time is an integer count of half days.       *)
(***************************************************************************)
EXTENDS Integers, Sequences, FiniteSets

\* ------------------------------------------------------------------ bounds
MaxOrders == 3
MaxTime == 2
MaxCommands == 1
MaxSubmits == 1

\* ------------------------------------------------------------ enumerations
STOP_ORDER_TYPES == {"STOP", "STOP_LIMIT", "MIT"}

OrderTypes == {"MARKET", "LIMIT", "STOP", "STOP_LIMIT", "MIT"}

OrderSides == {"BUY", "SELL"}

\* The events that end an order's life.
TerminalKinds == {"OrderFilled", "OrderCancelled", "OrderRejected", "OrderExpired"}

\* None of Python: no tick, no expire_time, no OCO partner, no order.
NoTime == -1
NoTick == [bid |-> 0, ask |-> 0]
NoOrderId == 0

\* ------------------------------------------------------------- instruments
\* The instruments handed to __init__: one FX pair and one non-FX contract.
Symbols == {"EURUSD", "XAUUSD"}

Instruments ==
    [sym \in Symbols |->
        [symbol |-> sym,
         security_type |-> IF sym = "EURUSD" THEN "FOREX" ELSE "CFD",
         tick_size |-> 1,
         min_stop_distance |-> 0,
         min_limit_distance |-> 1,
         min_trade_size |-> 2,
         max_trade_size |-> 4]]

\* _set_slippages: the slippage of a symbol is its instrument's tick size.
Slippages == [sym \in Symbols |-> Instruments[sym].tick_size]

\* _set_min_distances: tick_size * min_stop_distance, tick_size * min_limit_distance.
MinStops ==
    [sym \in Symbols |-> Instruments[sym].tick_size * Instruments[sym].min_stop_distance]

MinLimits ==
    [sym \in Symbols |-> Instruments[sym].tick_size * Instruments[sym].min_limit_distance]

\* config.starting_capital
StartingCapital == 100

\* self.rollover_spread = 0.0
RolloverSpread == 0

\* ------------------------------------------------------------------- time
\* A day has two instants: one before the day's rollover time and one at it.
DayLen == 2
\* The calendar wraps after this many days: datetime.day is the day of the month.
DaysPerMonth == 2

\* The calendar day a timestamp falls in; the clock's time 0 is the last instant
\* of day 0, so the instants 1 and 2 are the two instants of day 1.
DayIndex(t) == (t + 1) \div DayLen

\* datetime.day of a timestamp (1-based day of the month).
DayOf(t) == (DayIndex(t) % DaysPerMonth) + 1

\* The rollover time computed for the calendar day of t: 17:00 US/Eastern less 56
\* minutes, which is the second instant of that day.
RolloverTimeOf(t) == DayIndex(t) * DayLen

\* rollover_time.isoweekday(): day 0 is a Thursday.
IsoWeekDay(t) == ((DayIndex(t) + 3) % 7) + 1

\* ------------------------------------------------------------------ state
VARIABLES
    market,                     \* _market: symbol -> latest tick's quote (NoTick: none)
    working_orders,             \* _working_orders: order ids in insertion order
    atomic_child_orders,        \* _atomic_child_orders: entry id -> child ids (<<>>: no key)
    oco_orders,                 \* _oco_orders: order id -> order id (NoOrderId: no key)
    orders,                     \* the orders the strategy has created, by id
    order_state,                \* Order.state, set by the engine handling each event
    events,                     \* the events passed to handle_event, in order
    clock,                      \* _clock.time_now()
    guid,                       \* number of ids the GuidFactory has generated
    day_number,
    rollover_time,
    rollover_applied,
    frozen_account,
    account_capital,
    account_cash_start_day,
    account_cash_activity_day,
    account_cash_balance,       \* _account.cash_balance
    total_commissions,
    total_rollover,
    ledger,                     \* history: the amounts computed by adjust_account and rollover
    entry_of,                   \* history: child order id -> entry id of its atomic order
    n_submits,                  \* history: submit commands received
    n_commands,                 \* history: cancel, modify and inquiry commands received
    last_op                     \* history: the operation that ran last

vars ==
    <<market, working_orders, atomic_child_orders, oco_orders, orders, order_state,
      events, clock, guid, day_number, rollover_time, rollover_applied, frozen_account,
      account_capital, account_cash_start_day, account_cash_activity_day,
      account_cash_balance, total_commissions, total_rollover, ledger, entry_of,
      n_submits, n_commands,
      last_op>>

OrderIds == 1..MaxOrders

\* An id the strategy has not used yet.
NoOrder ==
    [id |-> NoOrderId, symbol |-> "NONE", side |-> "NONE", type |-> "NONE",
     quantity |-> 0, price |-> 0, expire_time |-> NoTime]

\* The client's fields as one record, threaded through the handlers.
Current ==
    [market |-> market, working_orders |-> working_orders,
     atomic_child_orders |-> atomic_child_orders, oco_orders |-> oco_orders,
     orders |-> orders, order_state |-> order_state, events |-> events,
     clock |-> clock, guid |-> guid, day_number |-> day_number,
     rollover_time |-> rollover_time, rollover_applied |-> rollover_applied,
     frozen_account |-> frozen_account, account_capital |-> account_capital,
     account_cash_start_day |-> account_cash_start_day,
     account_cash_activity_day |-> account_cash_activity_day,
     account_cash_balance |-> account_cash_balance,
     total_commissions |-> total_commissions, total_rollover |-> total_rollover,
     ledger |-> ledger]

\* ----------------------------------------------------------------- events
\* One event as handle_event receives it.  Fields an event kind does not carry
\* hold their None value.  Three fields are history, not part of the event: the
\* keys of working_orders when the event was delivered, the fill model's
\* is_slipped answer a fill was priced with, and the entry_direction of the
\* position the database answered for a fill ("NONE": no position).
Event(kind, order_id, event_id, timestamp) ==
    [kind |-> kind, order_id |-> order_id, event_id |-> event_id,
     timestamp |-> timestamp, price |-> 0, quantity |-> 0,
     cash_balance |-> 0, cash_start_day |-> 0, cash_activity_day |-> 0,
     expire_time |-> NoTime, response |-> "", reason |-> "", oco_from |-> NoOrderId,
     working |-> <<>>, is_slipped |-> FALSE, position_direction |-> "NONE"]

\* Order.state after the engine has applied an event of this kind to the order.
StateAfter(kind, old) ==
    CASE kind = "OrderSubmitted" -> "SUBMITTED"
      [] kind = "OrderAccepted" -> "ACCEPTED"
      [] kind = "OrderRejected" -> "REJECTED"
      [] kind = "OrderWorking" -> "WORKING"
      [] kind = "OrderCancelled" -> "CANCELLED"
      [] kind = "OrderExpired" -> "EXPIRED"
      [] kind = "OrderFilled" -> "FILLED"
      [] OTHER -> old

\* Order.is_completed
IsCompleted(state) == state \in {"CANCELLED", "EXPIRED", "FILLED", "REJECTED"}

\* _guid_factory.generate(): the id generated is s.guid.
Generate(s) == [s EXCEPT !.guid = @ + 1]

\* The price, quantity and the other fields of an order after the engine has
\* applied an event to it: none changes, an OrderModified included (the stored
\* order keeps its original price and quantity).
OrderAfter(e, order) == order

\* _exec_engine.handle_event(event): the engine records the event and applies it
\* to the order it is about.
HandleEvent(s, e) ==
    [s EXCEPT !.events = Append(@, [e EXCEPT !.working = s.working_orders]),
              !.orders =
                  IF e.order_id \in OrderIds
                  THEN [@ EXCEPT ![e.order_id] = OrderAfter(e, @)]
                  ELSE @,
              !.order_state =
                  IF e.order_id \in OrderIds
                  THEN [@ EXCEPT ![e.order_id] = StateAfter(e.kind, @)]
                  ELSE @]

\* del d[key] on an insertion-ordered dict kept as the sequence of its keys.
RECURSIVE Remove(_, _)
Remove(seq, x) ==
    IF seq = <<>> THEN <<>>
    ELSE IF Head(seq) = x THEN Tail(seq)
    ELSE <<Head(seq)>> \o Remove(Tail(seq), x)

InSeq(seq, x) == \E i \in 1..Len(seq) : seq[i] = x

\* ------------------------------------------------------------- price tests
\* A faulty variant of CheckValidPrice: the comparisons are not strict, so a
\* price equal to the bound is rejected.
CheckValidPriceNotStrict(order, current_market) ==
    IF order.side = "BUY"
    THEN IF order.type \in STOP_ORDER_TYPES
         THEN ~(order.price <= current_market.ask + MinStops[order.symbol])
         ELSE IF order.type = "LIMIT"
         THEN ~(order.price >= current_market.bid - MinLimits[order.symbol])
         ELSE TRUE
    ELSE IF order.side = "SELL"
    THEN IF order.type \in STOP_ORDER_TYPES
         THEN ~(order.price >= current_market.bid - MinStops[order.symbol])
         ELSE IF order.type = "LIMIT"
         THEN ~(order.price <= current_market.ask + MinLimits[order.symbol])
         ELSE TRUE
    ELSE TRUE

\* _check_valid_price: TRUE when the price is valid against the current market.
CheckValidPrice(order, current_market) ==
    IF order.side = "BUY"
    THEN IF order.type \in STOP_ORDER_TYPES
         THEN ~(order.price < current_market.ask + MinStops[order.symbol])
         ELSE IF order.type = "LIMIT"
         THEN ~(order.price > current_market.bid - MinLimits[order.symbol])
         ELSE TRUE
    ELSE IF order.side = "SELL"
    THEN IF order.type \in STOP_ORDER_TYPES
         THEN ~(order.price > current_market.bid - MinStops[order.symbol])
         ELSE IF order.type = "LIMIT"
         THEN ~(order.price < current_market.ask + MinLimits[order.symbol])
         ELSE TRUE
    ELSE TRUE

\* _is_marginal_*_fill: the touch price equals the order price and the fill model
\* agrees.  Python's "or" asks the fill model only when the first test failed.
IsMarginalBuyStopFill(order_price, tick, is_stop_filled) ==
    tick.ask = order_price /\ is_stop_filled

IsMarginalBuyLimitFill(order_price, tick, is_limit_filled) ==
    tick.ask = order_price /\ is_limit_filled

IsMarginalSellStopFill(order_price, tick, is_stop_filled) ==
    tick.bid = order_price /\ is_stop_filled

IsMarginalSellLimitFill(order_price, tick, is_limit_filled) ==
    tick.bid = order_price /\ is_limit_filled

\* A variant of FillTest with strict comparisons, in which a touch of the
\* order price fills the order only through the marginal test.
FillTestStrict(order, tick, is_stop_filled, is_limit_filled) ==
    IF order.side = "BUY"
    THEN IF order.type \in STOP_ORDER_TYPES
         THEN tick.ask > order.price
              \/ IsMarginalBuyStopFill(order.price, tick, is_stop_filled)
         ELSE IF order.type = "LIMIT"
         THEN tick.ask < order.price
              \/ IsMarginalBuyLimitFill(order.price, tick, is_limit_filled)
         ELSE FALSE
    ELSE IF order.side = "SELL"
    THEN IF order.type \in STOP_ORDER_TYPES
         THEN tick.bid < order.price
              \/ IsMarginalSellStopFill(order.price, tick, is_stop_filled)
         ELSE IF order.type = "LIMIT"
         THEN tick.bid > order.price
              \/ IsMarginalSellLimitFill(order.price, tick, is_limit_filled)
         ELSE FALSE
    ELSE FALSE

\* A faulty variant of FillTest: a BUY order is tested against the bid and a
\* SELL order against the ask.
FillTestBidAskSwapped(order, tick, is_stop_filled, is_limit_filled) ==
    IF order.side = "BUY"
    THEN IF order.type \in STOP_ORDER_TYPES THEN tick.bid >= order.price
         ELSE IF order.type = "LIMIT" THEN tick.bid <= order.price
         ELSE FALSE
    ELSE IF order.side = "SELL"
    THEN IF order.type \in STOP_ORDER_TYPES THEN tick.ask <= order.price
         ELSE IF order.type = "LIMIT" THEN tick.ask >= order.price
         ELSE FALSE
    ELSE FALSE

\* The fill test of process_tick's scan for one working order.
FillTest(order, tick, is_stop_filled, is_limit_filled) ==
    IF order.side = "BUY"
    THEN IF order.type \in STOP_ORDER_TYPES
         THEN tick.ask >= order.price
              \/ IsMarginalBuyStopFill(order.price, tick, is_stop_filled)
         ELSE IF order.type = "LIMIT"
         THEN tick.ask <= order.price
              \/ IsMarginalBuyLimitFill(order.price, tick, is_limit_filled)
         ELSE FALSE
    ELSE IF order.side = "SELL"
    THEN IF order.type \in STOP_ORDER_TYPES
         THEN tick.bid <= order.price
              \/ IsMarginalSellStopFill(order.price, tick, is_stop_filled)
         ELSE IF order.type = "LIMIT"
         THEN tick.bid >= order.price
              \/ IsMarginalSellLimitFill(order.price, tick, is_limit_filled)
         ELSE FALSE
    ELSE FALSE

\* A faulty variant of ScanFillPrice: the slippage is applied in favour of the
\* order instead of against it.
ScanFillPriceSlipReversed(order, is_slipped) ==
    IF ~is_slipped THEN order.price
    ELSE IF order.side = "BUY" THEN order.price - Slippages[order.symbol]
    ELSE order.price + Slippages[order.symbol]

\* The price a working order is filled at in process_tick.
ScanFillPrice(order, is_slipped) ==
    IF ~is_slipped THEN order.price
    ELSE IF order.side = "BUY" THEN order.price + Slippages[order.symbol]
    ELSE order.price - Slippages[order.symbol]

\* A faulty variant of MarketFillPrice: a BUY is filled at the bid and a SELL at
\* the ask.
MarketFillPriceSidesSwapped(order, current_market, is_slipped) ==
    IF order.side = "BUY"
    THEN IF is_slipped THEN current_market.bid + Slippages[order.symbol]
         ELSE current_market.bid
    ELSE IF is_slipped THEN current_market.ask - Slippages[order.symbol]
         ELSE current_market.ask

\* The price a MARKET order is filled at in _process_order.
MarketFillPrice(order, current_market, is_slipped) ==
    IF order.side = "BUY"
    THEN IF is_slipped THEN current_market.ask + Slippages[order.symbol]
         ELSE current_market.ask
    ELSE IF is_slipped THEN current_market.bid - Slippages[order.symbol]
         ELSE current_market.bid

\* ----------------------------------------------- collaborators' answers
\* get_position_for_order answers None or a position.  The positions of the
\* database are those the engine opened from this client's fills: a position has
\* the side and the price of the fill that opened it (calculate_pnl raises for
\* a FLAT one and the run ends there, so no FLAT position is answered).
NoPosition == [entry_direction |-> "NONE", market_position |-> "FLAT", average_open_price |-> 0]

PositionChoices == {"NONE", "BUY", "SELL"}

\* The fills delivered so far whose order has this side, as indexes of the log.
FillsOfSide(s, side) ==
    {i \in 1..Len(s.events) :
        s.events[i].kind = "OrderFilled" /\ s.orders[s.events[i].order_id].side = side}

\* The position opened by the latest fill of the chosen side, if there is one.
PositionOpenedBy(s, choice) ==
    IF choice = "NONE" \/ FillsOfSide(s, choice) = {} THEN NoPosition
    ELSE LET i == CHOOSE k \in FillsOfSide(s, choice) : \A j \in FillsOfSide(s, choice) : j <= k
         IN  [entry_direction |-> choice,
              market_position |-> IF choice = "BUY" THEN "LONG" ELSE "SHORT",
              average_open_price |-> s.events[i].price]

\* The answer the fill model (is_slipped) and the database give when this order fills.
IsSlipped(fm, order_id) ==
    IF order_id \in DOMAIN fm.slipped THEN fm.slipped[order_id] ELSE FALSE

PositionForOrder(fm, s, order_id) ==
    IF order_id \in DOMAIN fm.position THEN PositionOpenedBy(s, fm.position[order_id])
    ELSE NoPosition

\* get_positions_open answers no position, or the positions the fills so far opened.
RECURSIVE PositionsOfFills(_, _)
PositionsOfFills(s, i) ==
    IF i > Len(s.events) THEN <<>>
    ELSE (IF s.events[i].kind = "OrderFilled"
          THEN <<[symbol |-> s.orders[s.events[i].order_id].symbol,
                  quantity |-> s.events[i].quantity]>>
          ELSE <<>>) \o PositionsOfFills(s, i + 1)

OpenPositionAnswers(s) == {<<>>, PositionsOfFills(s, 1)}

\* exchange_calculator.get_rate: the quote currency is the account currency.
ExchangeRate(symbol) == 1

\* commission_calculator.calculate
CommissionCalculate(filled_quantity, filled_price, exchange_rate) ==
    filled_quantity * exchange_rate

\* calculate_pnl
CalculatePnl(direction, open_price, close_price, quantity, exchange_rate) ==
    IF direction = "LONG" THEN (close_price - open_price) * quantity * exchange_rate
    ELSE (open_price - close_price) * quantity * exchange_rate

\* The AccountStateEvent built from the client's account fields.
AccountStateOf(s, event_id) ==
    [Event("AccountStateEvent", NoOrderId, event_id, s.clock) EXCEPT
        !.cash_balance = s.account_capital,
        !.cash_start_day = s.account_cash_start_day,
        !.cash_activity_day = s.account_cash_activity_day]

\* History: what one call of adjust_account or apply_rollover_interest computed,
\* and how many events had been delivered when it was called.
LedgerEntry(source, pnl, commission, rollover, delivered) ==
    [source |-> source, pnl |-> pnl, commission |-> commission, rollover |-> rollover,
     delivered |-> delivered]

\* A faulty variant of NetPnl: the commission is not taken off the pnl.
NetPnlWithoutCommission(pnl, commission) == pnl

\* adjust_account: the amount added to the capital by a closing fill.
NetPnl(pnl, commission) == pnl - commission

\* A faulty variant of AccountUpdated: the frozen flag is ignored.
AccountUpdatedAlways(frozen) == TRUE

\* adjust_account: whether the account fields are updated and the event emitted.
AccountUpdated(frozen) == ~frozen

\* adjust_account(event, position)
AdjustAccount(s, fill, position) ==
    LET exchange_rate == ExchangeRate(s.orders[fill.order_id].symbol)
        pnl == CalculatePnl(position.market_position, position.average_open_price,
                            fill.price, fill.quantity, exchange_rate)
        commission == CommissionCalculate(fill.quantity, fill.price, exchange_rate)
        net == NetPnl(pnl, commission)
        s1 == [s EXCEPT !.total_commissions = @ - commission,
                        !.ledger = Append(@, LedgerEntry("fill", pnl, commission, 0,
                                                         Len(s.events)))]
    IN  IF AccountUpdated(s1.frozen_account)
        THEN LET s2 == [s1 EXCEPT !.account_capital = @ + net,
                                  !.account_cash_activity_day = @ + net]
             IN  HandleEvent(Generate(s2), AccountStateOf(s2, s2.guid))
        ELSE s1

\* ------------------------------------------------------ order bookkeeping
\* The values of _atomic_child_orders in iteration order, flattened.
RECURSIVE ChildOrdersFrom(_, _)
ChildOrdersFrom(s, entry_id) ==
    IF entry_id > MaxOrders THEN <<>>
    ELSE s.atomic_child_orders[entry_id] \o ChildOrdersFrom(s, entry_id + 1)

\* _reject_oco_order
RejectOcoOrder(s, order_id, oco_order_id) ==
    HandleEvent(Generate(s),
                [Event("OrderRejected", order_id, s.guid, s.clock) EXCEPT
                    !.reason = "OCO order rejected from", !.oco_from = oco_order_id])

\* _cancel_oco_order
CancelOcoOrder(s, order_id, oco_order_id) ==
    HandleEvent(Generate(s), Event("OrderCancelled", order_id, s.guid, s.clock))

\* _check_oco_order, lines 839-842: reject the latent children equal to the partner.
RECURSIVE RejectLatent(_, _, _, _)
RejectLatent(s, child_orders, oco_order_id, order_id) ==
    IF child_orders = <<>> THEN s
    ELSE LET s1 == IF Head(child_orders) = oco_order_id
                   THEN RejectOcoOrder(s, Head(child_orders), order_id)
                   ELSE s
         IN  RejectLatent(s1, Tail(child_orders), oco_order_id, order_id)

\* A faulty variant of CheckOcoOrder: the working partner is cancelled but the
\* "del self._working_orders[oco_order_id]" of line 847 is missing.
CheckOcoOrderKeepsPartner(s, order_id) ==
    IF s.oco_orders[order_id] = NoOrderId THEN s
    ELSE LET oco_order_id == s.oco_orders[order_id]
             s1 == [s EXCEPT !.oco_orders =
                        [@ EXCEPT ![order_id] = NoOrderId, ![oco_order_id] = NoOrderId]]
             s2 == RejectLatent(s1, ChildOrdersFrom(s1, 1), oco_order_id, order_id)
         IN  IF InSeq(s2.working_orders, oco_order_id)
             THEN CancelOcoOrder(s2, oco_order_id, order_id)
             ELSE s2

\* _check_oco_order
CheckOcoOrder(s, order_id) ==
    IF s.oco_orders[order_id] = NoOrderId THEN s
    ELSE LET oco_order_id == s.oco_orders[order_id]
             s1 == [s EXCEPT !.oco_orders =
                        [@ EXCEPT ![order_id] = NoOrderId, ![oco_order_id] = NoOrderId]]
             s2 == RejectLatent(s1, ChildOrdersFrom(s1, 1), oco_order_id, order_id)
         IN  IF InSeq(s2.working_orders, oco_order_id)
             THEN [CancelOcoOrder(s2, oco_order_id, order_id) EXCEPT
                      !.working_orders = Remove(@, oco_order_id)]
             ELSE s2

\* _clean_up_child_orders
CleanUpChildOrders(s, order_id) ==
    [s EXCEPT !.atomic_child_orders[order_id] = <<>>]

\* _accept_order
AcceptOrder(s, order) ==
    HandleEvent(Generate(s), Event("OrderAccepted", order.id, s.guid, s.clock))

\* _reject_order
RejectOrder(s, order, reason) ==
    LET s1 == HandleEvent(Generate(s),
                  [Event("OrderRejected", order.id, s.guid, s.clock) EXCEPT
                      !.reason = reason])
    IN  CleanUpChildOrders(CheckOcoOrder(s1, order.id), order.id)

\* _cancel_reject_order
CancelRejectOrder(s, order_id, response, reason) ==
    HandleEvent(Generate(s),
                [Event("OrderCancelReject", order_id, s.guid, s.clock) EXCEPT
                    !.response = response, !.reason = reason])

\* _expire_order
ExpireOrder(s, order) ==
    LET s1 == HandleEvent(Generate(s),
                  [Event("OrderExpired", order.id, s.guid, s.clock) EXCEPT
                      !.expire_time = order.expire_time])
        s2 == IF s1.atomic_child_orders[order.id] # <<>>
              THEN LET first_child_order_id == s1.atomic_child_orders[order.id][1]
                   IN  IF s1.oco_orders[first_child_order_id] # NoOrderId
                       THEN LET other_oco_order_id == s1.oco_orders[first_child_order_id]
                            IN  [s1 EXCEPT !.oco_orders =
                                    [@ EXCEPT ![first_child_order_id] = NoOrderId,
                                              ![other_oco_order_id] = NoOrderId]]
                       ELSE s1
              ELSE CheckOcoOrder(s1, order.id)
    IN  CleanUpChildOrders(s2, order.id)

RECURSIVE ProcessOrder(_, _, _)
RECURSIVE FillOrder(_, _, _, _)
RECURSIVE WorkChildOrders(_, _, _)

\* A faulty variant of WorkChildOrders: the child orders are worked from the
\* last of the list to the first.
RECURSIVE WorkChildOrdersLastFirst(_, _, _)
WorkChildOrdersLastFirst(s, child_orders, fm) ==
    IF child_orders = <<>> THEN s
    ELSE LET child_order == s.orders[child_orders[Len(child_orders)]]
             s1 == IF ~IsCompleted(s.order_state[child_order.id])
                   THEN ProcessOrder(s, child_order, fm)
                   ELSE s
         IN  WorkChildOrdersLastFirst(s1, SubSeq(child_orders, 1, Len(child_orders) - 1),
                                      fm)

\* A faulty variant of WorkChildOrders: a child order is processed whether or
\* not it is completed.
RECURSIVE WorkChildOrdersUnchecked(_, _, _)
WorkChildOrdersUnchecked(s, child_orders, fm) ==
    IF child_orders = <<>> THEN s
    ELSE WorkChildOrdersUnchecked(ProcessOrder(s, s.orders[Head(child_orders)], fm),
                                  Tail(child_orders), fm)

\* _fill_order, lines 814-819: work the atomic child orders in list order.
WorkChildOrders(s, child_orders, fm) ==
    IF child_orders = <<>> THEN s
    ELSE LET child_order == s.orders[Head(child_orders)]
             s1 == IF ~IsCompleted(s.order_state[child_order.id])
                   THEN ProcessOrder(s, child_order, fm)
                   ELSE s
         IN  WorkChildOrders(s1, Tail(child_orders), fm)

\* A faulty variant of FillOrder: the account is adjusted for any position the
\* database holds, whatever its entry direction.
FillOrderAdjustsAnyPosition(s, order, fill_price, fm) ==
    LET filled == [Event("OrderFilled", order.id, s.guid, s.clock) EXCEPT
                      !.price = fill_price, !.quantity = order.quantity,
                      !.is_slipped = IsSlipped(fm, order.id)]
        s1 == Generate(s)
        position == PositionForOrder(fm, s1, order.id)
        s2 == IF position # NoPosition
              THEN AdjustAccount(s1, filled, position)
              ELSE s1
        s3 == HandleEvent(s2, [filled EXCEPT
                                  !.position_direction = position.entry_direction])
        s4 == CheckOcoOrder(s3, order.id)
    IN  IF s4.atomic_child_orders[order.id] # <<>>
        THEN [WorkChildOrders(s4, s4.atomic_child_orders[order.id], fm) EXCEPT
                 !.atomic_child_orders[order.id] = <<>>]
        ELSE s4

\* A faulty variant of FillOrder: the account is adjusted after the fill event
\* has been delivered.
FillOrderAdjustsAfter(s, order, fill_price, fm) ==
    LET filled == [Event("OrderFilled", order.id, s.guid, s.clock) EXCEPT
                      !.price = fill_price, !.quantity = order.quantity,
                      !.is_slipped = IsSlipped(fm, order.id)]
        s1 == Generate(s)
        position == PositionForOrder(fm, s1, order.id)
        s2 == HandleEvent(s1, [filled EXCEPT
                                  !.position_direction = position.entry_direction])
        s3 == IF position # NoPosition /\ position.entry_direction # order.side
              THEN AdjustAccount(s2, filled, position)
              ELSE s2
        s4 == CheckOcoOrder(s3, order.id)
    IN  IF s4.atomic_child_orders[order.id] # <<>>
        THEN [WorkChildOrders(s4, s4.atomic_child_orders[order.id], fm) EXCEPT
                 !.atomic_child_orders[order.id] = <<>>]
        ELSE s4

\* _fill_order
FillOrder(s, order, fill_price, fm) ==
    LET filled == [Event("OrderFilled", order.id, s.guid, s.clock) EXCEPT
                      !.price = fill_price, !.quantity = order.quantity,
                      !.is_slipped = IsSlipped(fm, order.id)]
        s1 == Generate(s)
        position == PositionForOrder(fm, s1, order.id)
        s2 == IF position # NoPosition /\ position.entry_direction # order.side
              THEN AdjustAccount(s1, filled, position)
              ELSE s1
        s3 == HandleEvent(s2, [filled EXCEPT
                                  !.position_direction = position.entry_direction])
        s4 == CheckOcoOrder(s3, order.id)
    IN  IF s4.atomic_child_orders[order.id] # <<>>
        THEN [WorkChildOrders(s4, s4.atomic_child_orders[order.id], fm) EXCEPT
                 !.atomic_child_orders[order.id] = <<>>]
        ELSE s4

\* _process_order, lines 738-788: after the checks of size and market, the price
\* check, then the fill of a MARKET order or the working of a priced one.
ProcessCheckedOrder(s, order, current_market, fm) ==
    IF ~CheckValidPrice(order, current_market)
    THEN RejectOrder(s, order, "too far from the market")
    ELSE IF order.type = "MARKET"
    THEN FillOrder(AcceptOrder(s, order), order,
                   MarketFillPrice(order, current_market, IsSlipped(fm, order.id)), fm)
    ELSE LET s1 == AcceptOrder(s, order)
             s2 == [s1 EXCEPT !.working_orders = Append(@, order.id)]
         IN  HandleEvent(Generate(s2),
                 [Event("OrderWorking", order.id, s2.guid, s2.clock) EXCEPT
                     !.price = order.price, !.quantity = order.quantity,
                     !.expire_time = order.expire_time])

\* A faulty variant of ProcessOrder: the check that a market exists is missing,
\* so an order is validated against an empty quote.
ProcessOrderWithoutMarketCheck(s, order, fm) ==
    LET instrument == Instruments[order.symbol]
    IN  IF order.quantity > instrument.max_trade_size
        THEN RejectOrder(s, order, "exceeds the maximum trade size")
        ELSE IF order.quantity < instrument.min_trade_size
        THEN RejectOrder(s, order, "less than the minimum trade size")
        ELSE ProcessCheckedOrder(s, order, s.market[order.symbol], fm)

\* A faulty variant of ProcessOrder: the market is checked before the size.
ProcessOrderMarketCheckFirst(s, order, fm) ==
    LET instrument == Instruments[order.symbol]
        current_market == s.market[order.symbol]
    IN  IF current_market = NoTick
        THEN RejectOrder(s, order, "no market")
        ELSE IF order.quantity > instrument.max_trade_size
        THEN RejectOrder(s, order, "exceeds the maximum trade size")
        ELSE IF order.quantity < instrument.min_trade_size
        THEN RejectOrder(s, order, "less than the minimum trade size")
        ELSE ProcessCheckedOrder(s, order, current_market, fm)

\* A faulty variant of ProcessRaises: a duplicate id is not refused.
ProcessRaisesNever(s, order) == FALSE

\* _process_order, line 717: Condition.not_in(order.id, working_orders) raises
\* for an id that is a key of working_orders.
ProcessRaises(s, order) == InSeq(s.working_orders, order.id)

\* _process_order: after a raise the client's fields are what they were.
ProcessOrder(s, order, fm) ==
    LET instrument == Instruments[order.symbol]
        current_market == s.market[order.symbol]
    IN  IF ProcessRaises(s, order) THEN s
        ELSE IF order.quantity > instrument.max_trade_size
        THEN RejectOrder(s, order, "exceeds the maximum trade size")
        ELSE IF order.quantity < instrument.min_trade_size
        THEN RejectOrder(s, order, "less than the minimum trade size")
        ELSE IF current_market = NoTick
        THEN RejectOrder(s, order, "no market")
        ELSE ProcessCheckedOrder(s, order, current_market, fm)

\* --------------------------------------------------------------- rollover
\* apply_rollover_interest, lines 435-454: the interest of the open FX positions.
RECURSIVE RolloverCumulative(_, _, _)
RolloverCumulative(s, open_positions, interest_rate) ==
    IF open_positions = <<>> THEN 0
    ELSE LET position == Head(open_positions)
             instrument == Instruments[position.symbol]
             tick == s.market[instrument.symbol]
             exchange_rate == ExchangeRate(position.symbol)
             \* mid_price * quantity * interest_rate * exchange_rate
             rollover == ((tick.ask + tick.bid) * position.quantity * interest_rate
                          * exchange_rate) \div 2
             this == IF instrument.security_type = "FOREX"
                     THEN rollover - (rollover * RolloverSpread)
                     ELSE 0
         IN  this + RolloverCumulative(s, Tail(open_positions), interest_rate)

\* A faulty variant of RolloverFactor: no day books triple.
RolloverFactorSingle(iso_week_day) == 1

\* apply_rollover_interest, lines 456-459: triple on Wednesdays and Fridays.
RolloverFactor(iso_week_day) ==
    IF iso_week_day = 3 THEN 3 ELSE IF iso_week_day = 5 THEN 3 ELSE 1

\* apply_rollover_interest
ApplyRolloverInterest(s, iso_week_day, open_positions, interest_rate) ==
    LET rollover_final == RolloverCumulative(s, open_positions, interest_rate)
                          * RolloverFactor(iso_week_day)
        s1 == [s EXCEPT !.total_rollover = @ + rollover_final,
                        !.ledger = Append(@, LedgerEntry("rollover", 0, 0, rollover_final,
                                                         Len(s.events)))]
    IN  IF AccountUpdated(s1.frozen_account)
        THEN LET s2 == [s1 EXCEPT !.account_capital = @ + rollover_final,
                                  !.account_cash_activity_day = @ + rollover_final]
             IN  HandleEvent(Generate(s2), AccountStateOf(s2, s2.guid))
        ELSE s1

\* ------------------------------------------------------------ process_tick
\* A faulty variant of ScanOrder: no "continue" after a fill and no second look
\* at working_orders, so an order filled on its expiry tick is expired as well.
ScanOrderWithoutContinue(s, order, tick, fm) ==
    IF order.symbol # tick.symbol THEN s
    ELSE IF s.order_state[order.id] # "WORKING" THEN s
    ELSE LET s1 == IF FillTest(order, tick, fm.is_stop_filled, fm.is_limit_filled)
                   THEN FillOrder([s EXCEPT !.working_orders = Remove(@, order.id)], order,
                                  ScanFillPrice(order, IsSlipped(fm, order.id)), fm)
                   ELSE s
         IN  IF order.expire_time # NoTime /\ s1.clock >= order.expire_time
             THEN ExpireOrder([s1 EXCEPT !.working_orders = Remove(@, order.id)], order)
             ELSE s1

\* A faulty variant of ScanOrder: the state of the order is not looked at, so an
\* order that left working_orders since the copy was made is still tested.
ScanOrderIgnoresState(s, order, tick, fm) ==
    IF order.symbol # tick.symbol THEN s
    ELSE IF FillTest(order, tick, fm.is_stop_filled, fm.is_limit_filled)
    THEN FillOrder([s EXCEPT !.working_orders = Remove(@, order.id)], order,
                   ScanFillPrice(order, IsSlipped(fm, order.id)), fm)
    ELSE IF order.expire_time # NoTime /\ s.clock >= order.expire_time
            /\ InSeq(s.working_orders, order.id)
    THEN ExpireOrder([s EXCEPT !.working_orders = Remove(@, order.id)], order)
    ELSE s

\* A faulty variant of ScanOrder: the expiry check comes before the fill test.
ScanOrderExpiryFirst(s, order, tick, fm) ==
    IF order.symbol # tick.symbol THEN s
    ELSE IF s.order_state[order.id] # "WORKING" THEN s
    ELSE IF order.expire_time # NoTime /\ s.clock >= order.expire_time
            /\ InSeq(s.working_orders, order.id)
    THEN ExpireOrder([s EXCEPT !.working_orders = Remove(@, order.id)], order)
    ELSE IF FillTest(order, tick, fm.is_stop_filled, fm.is_limit_filled)
    THEN FillOrder([s EXCEPT !.working_orders = Remove(@, order.id)], order,
                   ScanFillPrice(order, IsSlipped(fm, order.id)), fm)
    ELSE s

\* A faulty variant of ScanOrder: the expiry check is made for the orders of
\* every symbol, not only for those of the tick's symbol.
ScanOrderExpiresAnySymbol(s, order, tick, fm) ==
    IF s.order_state[order.id] # "WORKING" THEN s
    ELSE IF order.symbol = tick.symbol
            /\ FillTest(order, tick, fm.is_stop_filled, fm.is_limit_filled)
    THEN FillOrder([s EXCEPT !.working_orders = Remove(@, order.id)], order,
                   ScanFillPrice(order, IsSlipped(fm, order.id)), fm)
    ELSE IF order.expire_time # NoTime /\ s.clock >= order.expire_time
            /\ InSeq(s.working_orders, order.id)
    THEN ExpireOrder([s EXCEPT !.working_orders = Remove(@, order.id)], order)
    ELSE s

\* process_tick, lines 297-344: one order of the copy of working_orders.
ScanOrder(s, order, tick, fm) ==
    IF order.symbol # tick.symbol THEN s
    ELSE IF s.order_state[order.id] # "WORKING" THEN s
    ELSE IF FillTest(order, tick, fm.is_stop_filled, fm.is_limit_filled)
    THEN FillOrder([s EXCEPT !.working_orders = Remove(@, order.id)], order,
                   ScanFillPrice(order, IsSlipped(fm, order.id)), fm)
    ELSE IF order.expire_time # NoTime /\ s.clock >= order.expire_time
            /\ InSeq(s.working_orders, order.id)
    THEN ExpireOrder([s EXCEPT !.working_orders = Remove(@, order.id)], order)
    ELSE s

\* A faulty variant of Scan: working_orders itself is scanned, not a copy, so
\* the keys added during the scan are scanned as well.
RECURSIVE ScanWithoutCopy(_, _, _, _)
ScanWithoutCopy(s, snapshot, tick, fm) ==
    IF snapshot = <<>> THEN s
    ELSE LET s1 == ScanOrder(s, s.orders[Head(snapshot)], tick, fm)
             added == SelectSeq(s1.working_orders,
                                LAMBDA id : ~InSeq(s.working_orders, id)
                                            /\ id # Head(snapshot))
         IN  ScanWithoutCopy(s1, Tail(snapshot) \o added, tick, fm)

\* A faulty variant of Scan: the copy of working_orders is scanned from its
\* newest key to its oldest.
RECURSIVE ScanNewestFirst(_, _, _, _)
ScanNewestFirst(s, snapshot, tick, fm) ==
    IF snapshot = <<>> THEN s
    ELSE ScanNewestFirst(ScanOrder(s, s.orders[snapshot[Len(snapshot)]], tick, fm),
                         SubSeq(snapshot, 1, Len(snapshot) - 1), tick, fm)

\* process_tick, lines 296-344: the scan of the copy of working_orders.
RECURSIVE Scan(_, _, _, _)
Scan(s, snapshot, tick, fm) ==
    IF snapshot = <<>> THEN s
    ELSE Scan(ScanOrder(s, s.orders[Head(snapshot)], tick, fm), Tail(snapshot), tick, fm)

\* The part of a tick that _market keeps for its reads: bid and ask (the
\* timestamp of a stored tick is never read).
QuoteOf(tick) == [bid |-> tick.bid, ask |-> tick.ask]

\* A faulty variant of ClockAfterTick: the clock is not set from the tick.
ClockNotSet(s, tick) == s.clock

\* process_tick, lines 261-262: the clock after set_time(tick.timestamp).
ClockAfterTick(s, tick) == tick.timestamp

\* process_tick, lines 261-281: clock, market and the new-day bookkeeping.
StartTick(s, tick) ==
    LET s1 == [s EXCEPT !.clock = ClockAfterTick(s, tick),
                        !.market[tick.symbol] = QuoteOf(tick)]
        time_now == s1.clock
    IN  IF s1.day_number # DayOf(time_now)
        THEN [s1 EXCEPT !.day_number = DayOf(time_now),
                        !.account_cash_start_day = s1.account_cash_balance,
                        !.account_cash_activity_day = 0,
                        !.rollover_applied = FALSE,
                        !.rollover_time = RolloverTimeOf(time_now)]
        ELSE s1

\* A faulty variant of RolloverDue: rollover_applied is not looked at.
RolloverDueEveryTick(s) == s.clock >= s.rollover_time

\* process_tick, line 284: whether rollover interest is applied on this tick.
RolloverDue(s) == ~s.rollover_applied /\ s.clock >= s.rollover_time

\* process_tick
ProcessTick(s, tick, fm, open_positions, interest_rate) ==
    LET s1 == StartTick(s, tick)
        s2 == IF RolloverDue(s1)
              THEN [ApplyRolloverInterest(s1, IsoWeekDay(s1.rollover_time),
                                          open_positions, interest_rate)
                       EXCEPT !.rollover_applied = TRUE]
              ELSE s1
    IN  IF s2.working_orders = <<>> THEN s2
        ELSE Scan(s2, s2.working_orders, tick, fm)

\* --------------------------------------------------------------- commands
\* account_inquiry
AccountInquiry(s) ==
    HandleEvent(Generate(s),
                [Event("AccountStateEvent", NoOrderId, s.guid, s.clock) EXCEPT
                    !.cash_balance = s.account_cash_balance,
                    !.cash_start_day = s.account_cash_start_day,
                    !.cash_activity_day = s.account_cash_activity_day])

\* submit_order
SubmitOrder(s, order, fm) ==
    LET s1 == HandleEvent(Generate(s), Event("OrderSubmitted", order.id, s.guid, s.clock))
    IN  ProcessOrder(s1, order, fm)

\* A faulty variant of RegisterAtomic: the OCO pair is recorded in one direction.
RegisterAtomicOneWay(s, entry_id, stop_loss_id, take_profit_id) ==
    IF take_profit_id # NoOrderId
    THEN [s EXCEPT !.oco_orders = [@ EXCEPT ![take_profit_id] = stop_loss_id],
                   !.atomic_child_orders[entry_id] = <<stop_loss_id, take_profit_id>>]
    ELSE [s EXCEPT !.atomic_child_orders[entry_id] = <<stop_loss_id>>]

\* submit_atomic_order, lines 523-529: the children and the OCO pair recorded.
RegisterAtomic(s, entry_id, stop_loss_id, take_profit_id) ==
    IF take_profit_id # NoOrderId
    THEN [s EXCEPT !.oco_orders = [@ EXCEPT ![take_profit_id] = stop_loss_id,
                                            ![stop_loss_id] = take_profit_id],
                   !.atomic_child_orders[entry_id] = <<stop_loss_id, take_profit_id>>]
    ELSE [s EXCEPT !.atomic_child_orders[entry_id] = <<stop_loss_id>>]

\* A faulty variant of SubmitAtomicOrder: the children are worked with the entry
\* instead of being held until the entry fills.
SubmitAtomicOrderWithChildren(s, entry, stop_loss_id, take_profit_id, fm) ==
    LET s1 == SubmitOrder(Generate(RegisterAtomic(s, entry.id, stop_loss_id,
                                                  take_profit_id)), entry, fm)
    IN  WorkChildOrders(s1, <<stop_loss_id>>, fm)

\* submit_atomic_order: the SubmitOrder command it builds takes an id of its own.
SubmitAtomicOrder(s, entry, stop_loss_id, take_profit_id, fm) ==
    SubmitOrder(Generate(RegisterAtomic(s, entry.id, stop_loss_id, take_profit_id)),
                entry, fm)

\* A faulty variant of CancelOrder: the OCO check of line 564 is missing.
CancelOrderWithoutOcoCheck(s, order_id) ==
    IF ~InSeq(s.working_orders, order_id)
    THEN CancelRejectOrder(s, order_id, "cancel order", "order not found")
    ELSE LET cancelled == Event("OrderCancelled", order_id, s.guid, s.clock)
             s1 == [Generate(s) EXCEPT !.working_orders = Remove(@, order_id)]
         IN  HandleEvent(s1, cancelled)

\* A faulty variant of CancelOrder: the child orders of a cancelled entry are
\* dropped as _expire_order drops them, with the OCO entries that link them.
CancelOrderDropsChildren(s, order_id) ==
    IF ~InSeq(s.working_orders, order_id)
    THEN CancelRejectOrder(s, order_id, "cancel order", "order not found")
    ELSE LET cancelled == Event("OrderCancelled", order_id, s.guid, s.clock)
             s1 == [Generate(s) EXCEPT !.working_orders = Remove(@, order_id)]
             s2 == CheckOcoOrder(HandleEvent(s1, cancelled), order_id)
             s3 == IF s2.atomic_child_orders[order_id] # <<>>
                   THEN LET first == s2.atomic_child_orders[order_id][1]
                            other == s2.oco_orders[first]
                        IN  IF other # NoOrderId
                            THEN [s2 EXCEPT !.oco_orders =
                                     [@ EXCEPT ![first] = NoOrderId,
                                               ![other] = NoOrderId]]
                            ELSE s2
                   ELSE s2
         IN  CleanUpChildOrders(s3, order_id)

\* cancel_order
CancelOrder(s, order_id) ==
    IF ~InSeq(s.working_orders, order_id)
    THEN CancelRejectOrder(s, order_id, "cancel order", "order not found")
    ELSE LET cancelled == Event("OrderCancelled", order_id, s.guid, s.clock)
             s1 == [Generate(s) EXCEPT !.working_orders = Remove(@, order_id)]
         IN  CheckOcoOrder(HandleEvent(s1, cancelled), order_id)

\* A variant of ModifyValidated: the order is validated with the modified
\* quantity and price of the command.
ModifyValidatedAsModified(order, modified_quantity, modified_price) ==
    [order EXCEPT !.quantity = modified_quantity, !.price = modified_price]

\* modify_order, lines 583-584: the order whose price is validated again.
ModifyValidated(order, modified_quantity, modified_price) == order

\* modify_order, lines 576-581: the call of _cancel_reject_order is given the
\* Order itself where the method is declared to take an OrderId (part_000, line
\* 91), so the call raises TypeError before the method's body runs.
ModifyRaises(s, order_id, modified_quantity) ==
    InSeq(s.working_orders, order_id) /\ modified_quantity = 0

\* A faulty variant of ModifyOrder: a successful modify writes the modified
\* quantity and price into the order stored in working_orders.
ModifyOrderUpdatesStored(s, order_id, modified_quantity, modified_price) ==
    IF ~InSeq(s.working_orders, order_id)
    THEN CancelRejectOrder(s, order_id, "modify order", "order not found")
    ELSE LET order == s.orders[order_id]
         IN  IF ModifyRaises(s, order_id, modified_quantity)
             THEN s
             ELSE IF ~CheckValidPrice(ModifyValidated(order, modified_quantity, modified_price),
                                      s.market[order.symbol])
             THEN RejectOrder(s, order, "too far from the market")
             ELSE LET s1 == [s EXCEPT !.orders[order_id] =
                                [@ EXCEPT !.quantity = modified_quantity,
                                          !.price = modified_price]]
                  IN  HandleEvent(Generate(s1),
                          [Event("OrderModified", order_id, s1.guid, s1.clock) EXCEPT
                              !.quantity = modified_quantity, !.price = modified_price])

\* A faulty variant of ModifyOrder: the modified quantity is checked against the
\* instrument's trade sizes and the modified price against the market.
ModifyOrderChecksModified(s, order_id, modified_quantity, modified_price) ==
    IF ~InSeq(s.working_orders, order_id)
    THEN CancelRejectOrder(s, order_id, "modify order", "order not found")
    ELSE LET order == s.orders[order_id]
             instrument == Instruments[order.symbol]
         IN  IF ModifyRaises(s, order_id, modified_quantity)
             THEN s
             ELSE IF modified_quantity > instrument.max_trade_size
             THEN RejectOrder(s, order, "exceeds the maximum trade size")
             ELSE IF modified_quantity < instrument.min_trade_size
             THEN RejectOrder(s, order, "less than the minimum trade size")
             ELSE IF ~CheckValidPrice([order EXCEPT !.price = modified_price],
                                      s.market[order.symbol])
             THEN RejectOrder(s, order, "too far from the market")
             ELSE HandleEvent(Generate(s),
                      [Event("OrderModified", order_id, s.guid, s.clock) EXCEPT
                          !.quantity = modified_quantity, !.price = modified_price])

\* modify_order
ModifyOrder(s, order_id, modified_quantity, modified_price) ==
    IF ~InSeq(s.working_orders, order_id)
    THEN CancelRejectOrder(s, order_id, "modify order", "order not found")
    ELSE LET order == s.orders[order_id]
         IN  IF ModifyRaises(s, order_id, modified_quantity)
             THEN s
             ELSE IF ~CheckValidPrice(ModifyValidated(order, modified_quantity, modified_price),
                                      s.market[order.symbol])
             THEN RejectOrder(s, order, "too far from the market")
             ELSE HandleEvent(Generate(s),
                      [Event("OrderModified", order_id, s.guid, s.clock) EXCEPT
                          !.quantity = modified_quantity, !.price = modified_price])

\* ----------------------------------------------------------------- inputs
\* The quotes (bid, ask) a tick of each symbol can carry.
Quotes(symbol) ==
    IF symbol = "EURUSD" THEN {<<1, 2>>, <<2, 3>>, <<3, 4>>, <<4, 5>>} ELSE {<<2, 3>>}

\* The ticks that can arrive next: each tick is later than the one before.
NextTicks ==
    {[symbol |-> sym, bid |-> q[1], ask |-> q[2], timestamp |-> t] :
        sym \in Symbols, q \in UNION {Quotes(x) : x \in Symbols}, t \in (clock + 1)..MaxTime}

OrderSymbols == {"EURUSD"}

Order(id, symbol, side, type, quantity, price, expire_time) ==
    [id |-> id, symbol |-> symbol, side |-> side, type |-> type, quantity |-> quantity,
     price |-> price, expire_time |-> expire_time]

\* The price the strategy gives an order of this side and type: each is valid
\* at some quotes of its symbol and invalid at others, and is touched by some.
MenuPrice(side, type) ==
    IF type = "MARKET" THEN 0
    ELSE IF (side = "BUY") = (type = "LIMIT") THEN 2 ELSE 4

\* The strategy's priced BUY orders are good till the last instant, its priced
\* SELL orders are good till cancelled (expire_time is None).
MenuExpireTime(side, type) ==
    IF type # "MARKET" /\ side = "BUY" THEN MaxTime ELSE NoTime

\* The orders a strategy can create under a given id: market orders, priced
\* orders, and orders of a size out of range.
OrderMenu(id) ==
    {Order(id, sym, side, type, 2, MenuPrice(side, type), MenuExpireTime(side, type)) :
        sym \in OrderSymbols, side \in OrderSides, type \in {"MARKET", "LIMIT", "STOP"}}
    \cup {Order(id, sym, "BUY", "MARKET", qty, 0, NoTime) :
            sym \in OrderSymbols, qty \in {1, 5}}

OppositeSide(side) == IF side = "BUY" THEN "SELL" ELSE "BUY"

\* The exits of an atomic order, on the other side of the entry: a stop-loss and,
\* optionally, a take-profit (a limit order, or a second stop).
StopLossMenu(id, entry) ==
    {Order(id, entry.symbol, OppositeSide(entry.side), "STOP", 2,
           MenuPrice(OppositeSide(entry.side), "STOP"),
           MenuExpireTime(OppositeSide(entry.side), "STOP"))}

TakeProfitMenu(id, entry) ==
    {Order(id, entry.symbol, OppositeSide(entry.side), type, 2,
           MenuPrice(OppositeSide(entry.side), type),
           MenuExpireTime(OppositeSide(entry.side), type)) : type \in {"LIMIT", "STOP"}}

\* The next id of the strategy's order id generator (ids are never reused).
UnusedIds == {id \in OrderIds : orders[id] = NoOrder}

NextOrderId == CHOOSE id \in UnusedIds : \A other \in UnusedIds : id <= other

\* The orders whose fill asks the fill model and the database on this tick.
FillCandidates(tick) ==
    LET direct == {id \in OrderIds :
                      /\ InSeq(working_orders, id)
                      /\ orders[id].symbol = tick.symbol
                      /\ FillTest(orders[id], tick, TRUE, TRUE)}
    IN  direct \cup {c \in OrderIds : \E d \in direct :
                        InSeq(atomic_child_orders[d], c) /\ orders[c].type = "MARKET"}

\* The answers of the fill model and of the database for the orders in ids.
FillAnswers(ids, marginal) ==
    [slipped : [ids -> BOOLEAN], position : [ids -> PositionChoices],
     is_stop_filled : marginal, is_limit_filled : marginal]

\* The fill model's answer about a marginal fill matters only on a tick that
\* touches the price of a working order.
MarginalAnswers(tick) ==
    IF \E id \in OrderIds :
           /\ InSeq(working_orders, id)
           /\ orders[id].symbol = tick.symbol
           /\ orders[id].price \in {tick.bid, tick.ask}
    THEN BOOLEAN
    ELSE {FALSE}

\* calc_overnight_rate: the overnight rate is a credit or a charge.
InterestRates == {-1, 1}

\* ---------------------------------------------------------- specification
Init ==
    /\ market = [sym \in Symbols |-> NoTick]
    /\ working_orders = <<>>
    /\ atomic_child_orders = [id \in OrderIds |-> <<>>]
    /\ oco_orders = [id \in OrderIds |-> NoOrderId]
    /\ orders = [id \in OrderIds |-> NoOrder]
    /\ order_state = [id \in OrderIds |-> "INITIALIZED"]
    /\ events = <<>>
    /\ clock = 0
    /\ guid = 1
    /\ day_number = 0
    /\ rollover_time = NoTime
    /\ rollover_applied = FALSE
    /\ frozen_account \in BOOLEAN
    /\ account_capital = StartingCapital
    /\ account_cash_start_day = StartingCapital
    /\ account_cash_activity_day = 0
    /\ account_cash_balance = StartingCapital
    /\ total_commissions = 0
    /\ total_rollover = 0
    /\ ledger = <<>>
    /\ entry_of = [id \in OrderIds |-> NoOrderId]
    /\ n_submits = 0
    /\ n_commands = 0
    /\ last_op = [kind |-> "init", timestamp |-> 0, symbol |-> "NONE", quote |-> NoTick,
                  first_event |-> 1, is_stop_filled |-> FALSE, is_limit_filled |-> FALSE,
                  order_id |-> NoOrderId, modified_quantity |-> 0, modified_price |-> 0,
                  raised |-> FALSE, open_positions |-> <<>>, interest_rate |-> 1]

\* The client's fields after a handler has run.
Commit(s) ==
    /\ market' = s.market
    /\ working_orders' = s.working_orders
    /\ atomic_child_orders' = s.atomic_child_orders
    /\ oco_orders' = s.oco_orders
    /\ orders' = s.orders
    /\ order_state' = s.order_state
    /\ events' = s.events
    /\ clock' = s.clock
    /\ guid' = s.guid
    /\ day_number' = s.day_number
    /\ rollover_time' = s.rollover_time
    /\ rollover_applied' = s.rollover_applied
    /\ frozen_account' = s.frozen_account
    /\ account_capital' = s.account_capital
    /\ account_cash_start_day' = s.account_cash_start_day
    /\ account_cash_activity_day' = s.account_cash_activity_day
    /\ account_cash_balance' = s.account_cash_balance
    /\ total_commissions' = s.total_commissions
    /\ total_rollover' = s.total_rollover
    /\ ledger' = s.ledger

\* History: the operation that ran last, the tick it was given (if it was
\* process_tick), the index of the first event it could deliver, what the
\* fill model answers about marginal fills while it runs, the order id a cancel
\* or modify command names, the quantity and price a modify command carries,
\* and whether the handler ended by raising.
Op(kind, timestamp, symbol, quote) ==
    [kind |-> kind, timestamp |-> timestamp, symbol |-> symbol, quote |-> quote,
     first_event |-> Len(events) + 1, is_stop_filled |-> FALSE,
     is_limit_filled |-> FALSE, order_id |-> NoOrderId, modified_quantity |-> 0,
     modified_price |-> 0, raised |-> FALSE, open_positions |-> <<>>,
     interest_rate |-> 1]

TickAction ==
    \E tick \in NextTicks :
        /\ <<tick.bid, tick.ask>> \in Quotes(tick.symbol)
        /\ LET due == RolloverDue(StartTick(Current, tick))
           IN  \E fm \in FillAnswers(FillCandidates(tick),
                                     MarginalAnswers(tick)),
                  open_positions \in (IF due THEN OpenPositionAnswers(Current) ELSE {<<>>}) :
                   \E interest_rate \in (IF open_positions # <<>>
                                          THEN InterestRates ELSE {1}) :
                   /\ Commit(ProcessTick(Current, tick, fm, open_positions,
                                          interest_rate))
                   /\ last_op' = [Op("process_tick", tick.timestamp, tick.symbol,
                                     QuoteOf(tick))
                                      EXCEPT !.is_stop_filled = fm.is_stop_filled,
                                             !.is_limit_filled = fm.is_limit_filled,
                                             !.open_positions = open_positions,
                                             !.interest_rate = interest_rate]
        /\ UNCHANGED <<entry_of, n_submits, n_commands>>

SubmitOrderAction ==
    /\ n_submits < MaxSubmits
    /\ UnusedIds # {}
    /\ \E order \in OrderMenu(NextOrderId) :
        \E fm \in FillAnswers(IF order.type = "MARKET" THEN {order.id} ELSE {}, {FALSE}) :
            Commit(SubmitOrder([Current EXCEPT !.orders[order.id] = order], order, fm))
    /\ last_op' = Op("submit_order", clock, "NONE", NoTick)
    /\ n_submits' = n_submits + 1
    /\ UNCHANGED <<entry_of, n_commands>>

SubmitAtomicOrderAction ==
    /\ n_submits < MaxSubmits
    /\ Cardinality(UnusedIds) >= 2
    /\ LET entry_id == NextOrderId
           stop_loss_id == entry_id + 1
           take_profit_id == entry_id + 2
       IN  \E entry \in OrderMenu(entry_id), has_take_profit \in BOOLEAN :
            /\ has_take_profit => take_profit_id \in UnusedIds
            /\ \E stop_loss \in StopLossMenu(stop_loss_id, entry),
                  take_profit \in (IF has_take_profit
                                   THEN TakeProfitMenu(take_profit_id, entry)
                                   ELSE {NoOrder}) :
                LET created == [id \in OrderIds |->
                                   IF id = entry_id THEN entry
                                   ELSE IF id = stop_loss_id THEN stop_loss
                                   ELSE IF has_take_profit /\ id = take_profit_id
                                   THEN take_profit
                                   ELSE orders[id]]
                    asked == {o.id : o \in {x \in {entry, stop_loss, take_profit} :
                                               x.type = "MARKET"}}
                IN  \E fm \in FillAnswers(IF entry.type = "MARKET" THEN asked ELSE {},
                                          {FALSE}) :
                        /\ Commit(SubmitAtomicOrder([Current EXCEPT !.orders = created],
                                                    entry, stop_loss_id,
                                                    take_profit.id, fm))
                        /\ entry_of' = [id \in OrderIds |->
                                            IF id \in {stop_loss_id, take_profit.id}
                                            THEN entry_id ELSE entry_of[id]]
    /\ last_op' = Op("submit_atomic_order", clock, "NONE", NoTick)
    /\ n_submits' = n_submits + 1
    /\ UNCHANGED n_commands

\* The ids a cancel or modify command can name: the orders created so far and
\* one id that no order carries.
CommandTargets ==
    {id \in OrderIds : orders[id] # NoOrder}
    \cup (IF UnusedIds = {} THEN {} ELSE {NextOrderId})

CancelOrderAction ==
    /\ n_commands < MaxCommands
    /\ \E order_id \in CommandTargets :
        /\ Commit(CancelOrder(Current, order_id))
        /\ last_op' = [Op("cancel_order", clock, "NONE", NoTick) EXCEPT
                          !.order_id = order_id]
    /\ n_commands' = n_commands + 1
    /\ UNCHANGED <<entry_of, n_submits>>

ModifiedQuantities == {0, 3}
ModifiedPrices == {3}

ModifyOrderAction ==
    /\ n_commands < MaxCommands
    /\ \E order_id \in CommandTargets, modified_quantity \in ModifiedQuantities,
          modified_price \in ModifiedPrices :
        /\ Commit(ModifyOrder(Current, order_id, modified_quantity, modified_price))
        /\ last_op' = [Op("modify_order", clock, "NONE", NoTick) EXCEPT
                          !.order_id = order_id,
                          !.modified_quantity = modified_quantity,
                          !.modified_price = modified_price,
                          !.raised = ModifyRaises(Current, order_id, modified_quantity)]
    /\ n_commands' = n_commands + 1
    /\ UNCHANGED <<entry_of, n_submits>>

AccountInquiryAction ==
    /\ n_commands < MaxCommands
    /\ Commit(AccountInquiry(Current))
    /\ last_op' = Op("account_inquiry", clock, "NONE", NoTick)
    /\ n_commands' = n_commands + 1
    /\ UNCHANGED <<entry_of, n_submits>>

Next ==
    \/ TickAction
    \/ SubmitOrderAction
    \/ SubmitAtomicOrderAction
    \/ CancelOrderAction
    \/ ModifyOrderAction
    \/ AccountInquiryAction

Spec == Init /\ [][Next]_vars

\* ------------------------------------------- a wider range of single orders
\* The orders of the wide menu: every order type at every price around the
\* quotes, market orders of every size around the instrument's limits, and
\* priced orders of a size out of range.
WidePrices == 1..5

WideQuantities == {1, 2, 4, 5}

WideOrderMenu(id) ==
    {Order(id, sym, side, type, 2, price, MenuExpireTime(side, type)) :
        sym \in OrderSymbols, side \in OrderSides,
        type \in OrderTypes \ {"MARKET"}, price \in WidePrices}
    \cup {Order(id, sym, side, "MARKET", qty, 0, NoTime) :
            sym \in OrderSymbols, side \in OrderSides, qty \in WideQuantities}
    \cup {Order(id, sym, "BUY", "LIMIT", qty, price, NoTime) :
            sym \in OrderSymbols, qty \in WideQuantities \ {2}, price \in {1, 5}}

\* submit_order with an order of the wide menu.
WideSubmitOrderAction ==
    /\ n_submits < MaxSubmits
    /\ UnusedIds # {}
    /\ \E order \in WideOrderMenu(NextOrderId) :
        \E fm \in FillAnswers(IF order.type = "MARKET" THEN {order.id} ELSE {}, {FALSE}) :
            Commit(SubmitOrder([Current EXCEPT !.orders[order.id] = order], order, fm))
    /\ last_op' = Op("submit_order", clock, "NONE", NoTick)
    /\ n_submits' = n_submits + 1
    /\ UNCHANGED <<entry_of, n_commands>>

\* Ticks, single orders of the wide menu and atomic orders; no other command.
WideNext ==
    \/ TickAction
    \/ WideSubmitOrderAction
    \/ SubmitAtomicOrderAction

WideSpec == Init /\ [][WideNext]_vars

\* ------------------------------------------------- a longer run of ticks
\* Ticks over two calendar days, with fewer quotes; one order, one cancel.
LongMaxTime == 4

LongQuotes(symbol) == IF symbol = "EURUSD" THEN {<<1, 2>>, <<3, 4>>} ELSE {<<2, 3>>}

LongNextTicks ==
    {[symbol |-> sym, bid |-> q[1], ask |-> q[2], timestamp |-> t] :
        sym \in Symbols, q \in UNION {LongQuotes(x) : x \in Symbols},
        t \in (clock + 1)..LongMaxTime}

\* process_tick with a tick of the longer run.
LongTickAction ==
    \E tick \in LongNextTicks :
        /\ <<tick.bid, tick.ask>> \in LongQuotes(tick.symbol)
        /\ LET due == RolloverDue(StartTick(Current, tick))
           IN  \E fm \in FillAnswers(FillCandidates(tick),
                                     MarginalAnswers(tick)),
                  open_positions \in (IF due THEN OpenPositionAnswers(Current) ELSE {<<>>}) :
                   \E interest_rate \in (IF open_positions # <<>>
                                          THEN InterestRates ELSE {1}) :
                   /\ Commit(ProcessTick(Current, tick, fm, open_positions,
                                          interest_rate))
                   /\ last_op' = [Op("process_tick", tick.timestamp, tick.symbol,
                                     QuoteOf(tick))
                                      EXCEPT !.is_stop_filled = fm.is_stop_filled,
                                             !.is_limit_filled = fm.is_limit_filled,
                                             !.open_positions = open_positions,
                                             !.interest_rate = interest_rate]
        /\ UNCHANGED <<entry_of, n_submits, n_commands>>

LongNext ==
    \/ LongTickAction
    \/ SubmitOrderAction
    \/ CancelOrderAction

LongSpec == Init /\ [][LongNext]_vars

\* ------------------------------------------------------ ticks over a month
\* Ticks alone, over three calendar days: the first and the third day carry the
\* same day of the month.  Two ticks can carry the same timestamp.
CalendarMaxTime == 6

CalendarNextTicks ==
    {[symbol |-> sym, bid |-> q[1], ask |-> q[2], timestamp |-> t] :
        sym \in Symbols, q \in UNION {LongQuotes(x) : x \in Symbols},
        t \in (IF clock = 0 THEN 1 ELSE clock)..CalendarMaxTime}

\* process_tick with a tick of the month.
CalendarTickAction ==
    \E tick \in CalendarNextTicks :
        /\ <<tick.bid, tick.ask>> \in LongQuotes(tick.symbol)
        /\ LET due == RolloverDue(StartTick(Current, tick))
           IN  \E fm \in FillAnswers(FillCandidates(tick),
                                     MarginalAnswers(tick)),
                  open_positions \in (IF due THEN OpenPositionAnswers(Current) ELSE {<<>>}) :
                   \E interest_rate \in (IF open_positions # <<>>
                                          THEN InterestRates ELSE {1}) :
                   /\ Commit(ProcessTick(Current, tick, fm, open_positions,
                                          interest_rate))
                   /\ last_op' = [Op("process_tick", tick.timestamp, tick.symbol,
                                     QuoteOf(tick))
                                      EXCEPT !.is_stop_filled = fm.is_stop_filled,
                                             !.is_limit_filled = fm.is_limit_filled,
                                             !.open_positions = open_positions,
                                             !.interest_rate = interest_rate]
        /\ UNCHANGED <<entry_of, n_submits, n_commands>>

CalendarNext == CalendarTickAction

CalendarSpec == Init /\ [][CalendarNext]_vars

\* ------------------------------------------------- several single orders
\* Ticks and up to PairMaxSubmits priced single orders, so that several orders
\* that are not linked to each other are working on the same tick.
PairMaxSubmits == 2

PairOrderMenu(id) ==
    {Order(id, sym, side, type, 2, MenuPrice(side, type), MenuExpireTime(side, type)) :
        sym \in OrderSymbols, side \in OrderSides, type \in {"LIMIT", "STOP"}}

\* submit_order with a priced order.
PairSubmitOrderAction ==
    /\ n_submits < PairMaxSubmits
    /\ UnusedIds # {}
    /\ \E order \in PairOrderMenu(NextOrderId) :
        \E fm \in FillAnswers({}, {FALSE}) :
            Commit(SubmitOrder([Current EXCEPT !.orders[order.id] = order], order, fm))
    /\ last_op' = Op("submit_order", clock, "NONE", NoTick)
    /\ n_submits' = n_submits + 1
    /\ UNCHANGED <<entry_of, n_commands>>

PairNext ==
    \/ TickAction
    \/ PairSubmitOrderAction

PairSpec == Init /\ [][PairNext]_vars

\* ------------------------------------------- positions in two instruments
\* Market orders in the FX instrument and in the other one, over two calendar
\* days, a Friday and a Saturday.  Two ticks can carry the same timestamp.
RolloverMaxSubmits == 2

RolloverMaxTime == 4

RolloverQuotes(symbol) == IF symbol = "EURUSD" THEN {<<1, 2>>} ELSE {<<2, 3>>}

RolloverNextTicks ==
    {[symbol |-> sym, bid |-> q[1], ask |-> q[2], timestamp |-> t] :
        sym \in Symbols, q \in UNION {RolloverQuotes(x) : x \in Symbols},
        t \in (IF clock = 0 THEN 1 ELSE clock)..RolloverMaxTime}

\* process_tick with a tick of the two days.
RolloverTickAction ==
    \E tick \in RolloverNextTicks :
        /\ <<tick.bid, tick.ask>> \in RolloverQuotes(tick.symbol)
        /\ LET due == RolloverDue(StartTick(Current, tick))
           IN  \E fm \in FillAnswers(FillCandidates(tick),
                                     MarginalAnswers(tick)),
                  open_positions \in (IF due THEN OpenPositionAnswers(Current) ELSE {<<>>}) :
                   \E interest_rate \in (IF open_positions # <<>>
                                          THEN InterestRates ELSE {1}) :
                   /\ Commit(ProcessTick(Current, tick, fm, open_positions,
                                          interest_rate))
                   /\ last_op' = [Op("process_tick", tick.timestamp, tick.symbol,
                                     QuoteOf(tick))
                                      EXCEPT !.is_stop_filled = fm.is_stop_filled,
                                             !.is_limit_filled = fm.is_limit_filled,
                                             !.open_positions = open_positions,
                                             !.interest_rate = interest_rate]
        /\ UNCHANGED <<entry_of, n_submits, n_commands>>

RolloverOrderMenu(id) ==
    {Order(id, sym, side, "MARKET", quantity, 0, NoTime) :
        sym \in Symbols, side \in OrderSides, quantity \in {2}}

\* submit_order with a market order.
RolloverSubmitOrderAction ==
    /\ n_submits < RolloverMaxSubmits
    /\ UnusedIds # {}
    /\ \E order \in RolloverOrderMenu(NextOrderId) :
        \E fm \in FillAnswers({order.id}, {FALSE}) :
            Commit(SubmitOrder([Current EXCEPT !.orders[order.id] = order], order, fm))
    /\ last_op' = Op("submit_order", clock, "NONE", NoTick)
    /\ n_submits' = n_submits + 1
    /\ UNCHANGED <<entry_of, n_commands>>

RolloverNext ==
    \/ RolloverTickAction
    \/ RolloverSubmitOrderAction

RolloverSpec == Init /\ [][RolloverNext]_vars

\* ------------------------------------------------- an order id used twice
\* submit_order with an order that carries the id of a working order.  The
\* record of the call keeps the symbol and the quantity of the order passed.
ResubmitOrderAction ==
    /\ n_commands < MaxCommands
    /\ \E order_id \in OrderIds :
        /\ InSeq(working_orders, order_id)
        /\ \E order \in OrderMenu(order_id) :
            \E fm \in FillAnswers(IF order.type = "MARKET" THEN {order.id} ELSE {},
                                  {FALSE}) :
                /\ Commit(SubmitOrder(Current, order, fm))
                /\ last_op' = [Op("submit_order", clock, order.symbol, NoTick) EXCEPT
                                  !.order_id = order_id,
                                  !.modified_quantity = order.quantity,
                                  !.raised = ProcessRaises(Current, order)]
    /\ n_commands' = n_commands + 1
    /\ UNCHANGED <<entry_of, n_submits>>

ResubmitNext ==
    \/ TickAction
    \/ SubmitOrderAction
    \/ ResubmitOrderAction

ResubmitSpec == Init /\ [][ResubmitNext]_vars

\* ---------------------------------------------- a wider range of modifies
\* modify_order with quantities below, within and above the instrument's trade
\* sizes, and with prices on either side of the market.
WideModifiedQuantities == {0, 1, 3, 5}
WideModifiedPrices == {1, 3, 5}

WideModifyOrderAction ==
    /\ n_commands < MaxCommands
    /\ \E order_id \in CommandTargets, modified_quantity \in WideModifiedQuantities,
          modified_price \in WideModifiedPrices :
        /\ Commit(ModifyOrder(Current, order_id, modified_quantity, modified_price))
        /\ last_op' = [Op("modify_order", clock, "NONE", NoTick) EXCEPT
                          !.order_id = order_id,
                          !.modified_quantity = modified_quantity,
                          !.modified_price = modified_price,
                          !.raised = ModifyRaises(Current, order_id, modified_quantity)]
    /\ n_commands' = n_commands + 1
    /\ UNCHANGED <<entry_of, n_submits>>

ModifyNext ==
    \/ TickAction
    \/ SubmitOrderAction
    \/ WideModifyOrderAction

ModifySpec == Init /\ [][ModifyNext]_vars

\* ------------------------------------- children at the price of the market
\* An atomic order whose stop-loss, and whose take-profit when it has one, is a
\* stop at a price that the tick filling the entry can touch, good till
\* cancelled or till the second instant.
SnapshotChildPrices == {3}

SnapshotChildMenu(id, entry) ==
    {Order(id, entry.symbol, OppositeSide(entry.side), "STOP", 2, price, expire_time) :
        price \in SnapshotChildPrices, expire_time \in {NoTime, 2}}

\* submit_atomic_order with a BUY entry and such children.
SnapshotSubmitAtomicOrderAction ==
    /\ n_submits < MaxSubmits
    /\ Cardinality(UnusedIds) >= 2
    /\ LET entry_id == NextOrderId
           stop_loss_id == entry_id + 1
           take_profit_id == entry_id + 2
       IN  \E type \in {"LIMIT", "STOP"}, has_take_profit \in BOOLEAN :
            LET entry == Order(entry_id, "EURUSD", "BUY", type, 2,
                               MenuPrice("BUY", type), NoTime)
            IN  /\ has_take_profit => take_profit_id \in UnusedIds
                /\ \E stop_loss \in SnapshotChildMenu(stop_loss_id, entry),
                      take_profit \in (IF has_take_profit
                                       THEN SnapshotChildMenu(take_profit_id, entry)
                                       ELSE {NoOrder}) :
                    LET created == [id \in OrderIds |->
                                       IF id = entry_id THEN entry
                                       ELSE IF id = stop_loss_id THEN stop_loss
                                       ELSE IF has_take_profit /\ id = take_profit_id
                                       THEN take_profit
                                       ELSE orders[id]]
                    IN  \E fm \in FillAnswers({}, {FALSE}) :
                            /\ Commit(SubmitAtomicOrder([Current EXCEPT !.orders = created],
                                                        entry, stop_loss_id,
                                                        take_profit.id, fm))
                            /\ entry_of' = [id \in OrderIds |->
                                                IF id \in {stop_loss_id, take_profit.id}
                                                THEN entry_id ELSE entry_of[id]]
    /\ last_op' = Op("submit_atomic_order", clock, "NONE", NoTick)
    /\ n_submits' = n_submits + 1
    /\ UNCHANGED n_commands

SnapshotNext ==
    \/ LongTickAction
    \/ SnapshotSubmitAtomicOrderAction

SnapshotSpec == Init /\ [][SnapshotNext]_vars

\* ------------------------------------------------------------- properties
\* The events of the log that are about one order.
EventsOf(order_id, kinds) ==
    {i \in 1..Len(events) : events[i].order_id = order_id /\ events[i].kind \in kinds}

Emitted(order_id, kind) == EventsOf(order_id, {kind}) # {}

TerminalEventsOf(order_id) == EventsOf(order_id, TerminalKinds)

\* The events the operation that ran last has delivered.
EventsOfLastOp == {i \in 1..Len(events) : i >= last_op.first_event}

\* C1: an order id is a key of working_orders if and only if OrderAccepted has
\* been emitted for the order and no terminal event (OrderFilled, OrderCancelled,
\* OrderRejected, OrderExpired) has been emitted for it.
C1_WorkingIffAcceptedNotTerminal ==
    \A id \in OrderIds :
        InSeq(working_orders, id)
            <=> (Emitted(id, "OrderAccepted") /\ TerminalEventsOf(id) = {})

\* C2: no order ever has two terminal events, and an order for which
\* OrderAccepted has been emitted has exactly one terminal event or is still a
\* key of working_orders.
C2_ExactlyOneTerminal ==
    \A id \in OrderIds :
        /\ Cardinality(TerminalEventsOf(id)) <= 1
        /\ Emitted(id, "OrderAccepted")
              => (Cardinality(TerminalEventsOf(id)) = 1 \/ InSeq(working_orders, id))

\* C3: OrderFilled and OrderExpired are never both emitted for the same order.
C3_FilledExpiredExclusive ==
    \A id \in OrderIds : ~(Emitted(id, "OrderFilled") /\ Emitted(id, "OrderExpired"))

\* C3 happens: a working order with an expire time was filled by a tick at or
\* after that time, the tick that would have expired it otherwise.
C3_Witness ==
    \E id \in OrderIds :
        /\ orders[id].expire_time # NoTime
        /\ Emitted(id, "OrderWorking")
        /\ \E i \in EventsOf(id, {"OrderFilled"}) :
              events[i].timestamp >= orders[id].expire_time

\* C4: the OCO map is symmetric and irreflexive: oco_orders[a] = b if and only if
\* oco_orders[b] = a, and no order id is mapped to itself.
C4_OcoSymmetricIrreflexive ==
    \A a \in OrderIds :
        oco_orders[a] # NoOrderId
            => (oco_orders[a] # a /\ oco_orders[oco_orders[a]] = a)

\* C4 happens: an OCO pair is linked while one of its orders is working, after an
\* operation other than the submission has run.
C4_Witness ==
    /\ last_op.kind \in {"process_tick", "cancel_order", "modify_order"}
    /\ \E a \in OrderIds : oco_orders[a] # NoOrderId /\ InSeq(working_orders, a)

\* C5: a stop-loss or take-profit child of an atomic order is never a key of
\* working_orders, and no OrderAccepted or OrderWorking is emitted for it, before
\* OrderFilled has been emitted for the entry order of its atomic order.
C5_ChildrenHeldUntilEntryFilled ==
    \A child \in OrderIds :
        entry_of[child] # NoOrderId
            => /\ InSeq(working_orders, child) => Emitted(entry_of[child], "OrderFilled")
               /\ \A i \in EventsOf(child, {"OrderAccepted", "OrderWorking"}) :
                     \E j \in EventsOf(entry_of[child], {"OrderFilled"}) : j < i

\* C5 happens: the entry of an atomic order is working, unfilled, with its
\* children held; and, in another state, a child is working after the entry filled.
C5_Witness ==
    \E child \in OrderIds :
        /\ entry_of[child] # NoOrderId
        /\ InSeq(working_orders, child)
        /\ Emitted(entry_of[child], "OrderWorking")

\* The sum of what the first k calls of adjust_account and
\* apply_rollover_interest computed: pnl less commission, plus rollover.
RECURSIVE LedgerSum(_)
LedgerSum(k) ==
    IF k = 0 THEN 0
    ELSE ledger[k].pnl - ledger[k].commission + ledger[k].rollover + LedgerSum(k - 1)

\* C6: with frozen_account false, account_capital equals the starting capital
\* plus the sum over the closing fills of pnl less commission plus the sum of the
\* rollover amounts applied, and the AccountStateEvent of each fill and of each
\* rollover carries that running value as its cash balance.
C6_CapitalIdentity ==
    ~frozen_account
        => /\ account_capital = StartingCapital + LedgerSum(Len(ledger))
           /\ \A k \in 1..Len(ledger) :
                 /\ ledger[k].delivered < Len(events)
                 /\ events[ledger[k].delivered + 1].kind = "AccountStateEvent"
                 /\ events[ledger[k].delivered + 1].cash_balance
                        = StartingCapital + LedgerSum(k)

\* C6 happens: the account is not frozen, a closing fill with a commission and a
\* pnl other than zero and a rollover other than zero have been applied.
C6_Witness ==
    /\ ~frozen_account
    /\ \E k \in 1..Len(ledger) :
          ledger[k].source = "fill" /\ ledger[k].pnl # 0 /\ ledger[k].commission # 0
    /\ \E k \in 1..Len(ledger) : ledger[k].source = "rollover" /\ ledger[k].rollover # 0

RECURSIVE LedgerCommissions(_)
LedgerCommissions(k) ==
    IF k = 0 THEN 0 ELSE ledger[k].commission + LedgerCommissions(k - 1)

RECURSIVE LedgerRollover(_)
LedgerRollover(k) ==
    IF k = 0 THEN 0 ELSE ledger[k].rollover + LedgerRollover(k - 1)

\* C7: with frozen_account true, account_capital equals the starting capital:
\* neither a closing fill nor rollover interest changes account_capital or
\* cash_activity_day or emits an AccountStateEvent, although the commission and
\* the rollover are still computed into total_commissions and total_rollover.
C7_FrozenAccount ==
    frozen_account
        => /\ account_capital = StartingCapital
           /\ account_cash_activity_day = 0
           /\ last_op.kind # "account_inquiry"
                 => \A i \in EventsOfLastOp : events[i].kind # "AccountStateEvent"
           /\ total_commissions = 0 - LedgerCommissions(Len(ledger))
           /\ total_rollover = LedgerRollover(Len(ledger))

\* C7 happens: the account is frozen and a tick has applied a rollover other
\* than zero and a closing fill with a net pnl other than zero.
C7_Witness ==
    /\ frozen_account
    /\ last_op.kind = "process_tick"
    /\ total_commissions # 0
    /\ total_rollover # 0
    /\ \E k \in 1..Len(ledger) :
          ledger[k].source = "fill" /\ ledger[k].pnl # ledger[k].commission

\* C9: every event carries an id no other event carries, and the events are
\* delivered in the order in which their ids were generated.
C9_DeliveredInGenerationOrder ==
    \A i, j \in 1..Len(events) : i < j => events[i].event_id < events[j].event_id

\* C10: process_tick sets the clock to the tick's timestamp and stores the tick
\* as the market of its symbol before anything else, so every event emitted while
\* the tick is processed carries the tick's timestamp.
C10_TickEventsCarryTickTime ==
    last_op.kind = "process_tick"
        => /\ clock = last_op.timestamp
           /\ market[last_op.symbol] = last_op.quote
           /\ \A i \in EventsOfLastOp : events[i].timestamp = last_op.timestamp

\* C10 happens: one tick has delivered a rollover account state, a fill and the
\* cancellation of the OCO partner.
C10_Witness ==
    /\ last_op.kind = "process_tick"
    /\ \E i, j, k \in EventsOfLastOp :
          /\ events[i].kind = "AccountStateEvent"
          /\ events[j].kind = "OrderFilled"
          /\ events[k].kind = "OrderCancelled"

\* C11: for every order the client processes, the stop-loss and take-profit
\* children of an atomic order included, an OrderSubmitted for the order is
\* emitted before any OrderAccepted or OrderRejected for it.
C11_SubmittedBeforeAcceptedOrRejected ==
    \A id \in OrderIds :
        \A i \in EventsOf(id, {"OrderAccepted", "OrderRejected"}) :
            \E j \in EventsOf(id, {"OrderSubmitted"}) : j < i

\* The other child of the atomic order an order is a child of: its OCO partner
\* when the atomic order has a take-profit.
OcoPartners(a) ==
    {b \in OrderIds \ {a} : entry_of[a] # NoOrderId /\ entry_of[b] = entry_of[a]}

\* C12: when one order of an OCO pair is the first of the pair to get a fill,
\* cancel, reject or expiry event, and its partner is a key of working_orders
\* at that moment, then by the end of the same operation the partner is no key
\* of working_orders, an OrderCancelled has been emitted for the partner after
\* the event of the first order, and neither order is a key of oco_orders.
C12_OcoPartnerCancelled ==
    \A a \in OrderIds :
        \A b \in OcoPartners(a) :
            \A i \in TerminalEventsOf(a) :
                (InSeq(events[i].working, b) /\ \A k \in TerminalEventsOf(b) : i < k)
                    => /\ ~InSeq(working_orders, b)
                       /\ \E j \in EventsOf(b, {"OrderCancelled"}) : j > i
                       /\ oco_orders[a] = NoOrderId
                       /\ oco_orders[b] = NoOrderId

\* C12 happens: a tick has filled one order of an OCO pair while its partner was
\* working.
C12_Witness ==
    /\ last_op.kind = "process_tick"
    /\ \E a \in OrderIds :
          \E b \in OcoPartners(a) :
              \E i \in EventsOf(a, {"OrderFilled"}) :
                  i \in EventsOfLastOp /\ InSeq(events[i].working, b)

\* C13: once the entry order of an atomic order has been rejected or has
\* expired, atomic_child_orders has no key for it, its children are no keys of
\* working_orders, and the oco_orders entries that link its stop-loss and its
\* take-profit are gone.
C13_ChildrenDiscarded ==
    \A child \in OrderIds :
        (/\ entry_of[child] # NoOrderId
         /\ EventsOf(entry_of[child], {"OrderRejected", "OrderExpired"}) # {})
            => /\ atomic_child_orders[entry_of[child]] = <<>>
               /\ ~InSeq(working_orders, child)
               /\ \A i \in 1..Len(events) : ~InSeq(events[i].working, child)
               /\ oco_orders[child] = NoOrderId

\* The position of a key in working_orders.
Pos(seq, x) == CHOOSE i \in 1..Len(seq) : seq[i] = x

\* The events about one order that the step under way delivers.
NewEventsOf(order_id, kinds) ==
    {j \in (Len(events) + 1)..Len(events') :
        events'[j].order_id = order_id /\ events'[j].kind \in kinds}

\* The step under way is a call of process_tick.
IsTickStep == last_op'.kind = "process_tick" /\ clock' > clock

\* An order of the snapshot is no longer WORKING at its turn when its OCO
\* partner, earlier in the snapshot, has been filled or has expired on this tick.
CancelledBeforeTurn(id) ==
    \E p \in OrderIds :
        /\ oco_orders[p] = id
        /\ InSeq(working_orders, p)
        /\ Pos(working_orders, p) < Pos(working_orders, id)
        /\ NewEventsOf(p, {"OrderFilled", "OrderExpired"}) # {}

\* The fill condition as the claim words it, and the marginal condition.
C14_FillCondition(order, quote) ==
    \/ order.side = "BUY" /\ order.type \in STOP_ORDER_TYPES /\ quote.ask >= order.price
    \/ order.side = "BUY" /\ order.type = "LIMIT" /\ quote.ask <= order.price
    \/ order.side = "SELL" /\ order.type \in STOP_ORDER_TYPES /\ quote.bid <= order.price
    \/ order.side = "SELL" /\ order.type = "LIMIT" /\ quote.bid >= order.price

C14_MarginalCondition(order, quote, is_stop_filled, is_limit_filled) ==
    /\ order.price = (IF order.side = "BUY" THEN quote.ask ELSE quote.bid)
    /\ \/ order.type \in STOP_ORDER_TYPES /\ is_stop_filled
       \/ order.type = "LIMIT" /\ is_limit_filled

\* C14: during process_tick(t), an order of the snapshot of working_orders whose
\* symbol is t.symbol and whose state is WORKING at its turn is filled exactly
\* when: BUY STOP-kind: t.ask >= price; BUY LIMIT: t.ask <= price; SELL
\* STOP-kind: t.bid <= price; SELL LIMIT: t.bid >= price (or the marginal
\* condition holds); the order is no key of working_orders when its OrderFilled
\* is delivered.
C14_FilledExactlyWhen ==
    [][IsTickStep =>
        \A id \in OrderIds :
            (/\ InSeq(working_orders, id)
             /\ orders[id].symbol = last_op'.symbol
             /\ order_state[id] = "WORKING")
                => IF CancelledBeforeTurn(id)
                   THEN NewEventsOf(id, {"OrderFilled"}) = {}
                   ELSE /\ NewEventsOf(id, {"OrderFilled"}) # {}
                             <=> \/ C14_FillCondition(orders[id], last_op'.quote)
                                 \/ C14_MarginalCondition(orders[id], last_op'.quote,
                                                          last_op'.is_stop_filled,
                                                          last_op'.is_limit_filled)
                        /\ \A j \in NewEventsOf(id, {"OrderFilled"}) :
                              ~InSeq(events'[j].working, id)
                        /\ NewEventsOf(id, {"OrderFilled"}) # {}
                              => ~InSeq(working_orders', id)]_vars

\* C14 happens: a tick whose bid is below the price of a working SELL order of
\* a STOP kind other than STOP has filled the order.
C14_Witness ==
    /\ last_op.kind = "process_tick"
    /\ \E id \in OrderIds :
          /\ orders[id].side = "SELL"
          /\ orders[id].type \in STOP_ORDER_TYPES \ {"STOP"}
          /\ last_op.quote.bid < orders[id].price
          /\ \E i \in EventsOf(id, {"OrderFilled"}) :
                i \in EventsOfLastOp /\ Emitted(id, "OrderWorking")

\* The touch price of a tick for an order: the ask for a BUY, the bid for a SELL.
TouchPrice(order, quote) == IF order.side = "BUY" THEN quote.ask ELSE quote.bid

\* What the fill model answers about a marginal fill of this order.
ModelSaysFilled(order, is_stop_filled, is_limit_filled) ==
    \/ order.type \in STOP_ORDER_TYPES /\ is_stop_filled
    \/ order.type = "LIMIT" /\ is_limit_filled

\* An order of the snapshot of working_orders that process_tick tests for a
\* fill on the tick of the step under way, and whose price the tick touches.
TestedAtTouch(id) ==
    /\ InSeq(working_orders, id)
    /\ orders[id].symbol = last_op'.symbol
    /\ order_state[id] = "WORKING"
    /\ ~CancelledBeforeTurn(id)
    /\ TouchPrice(orders[id], last_op'.quote) = orders[id].price

WorkingFills ==
    {i \in 1..Len(events) :
        events[i].kind = "OrderFilled" /\ Emitted(events[i].order_id, "OrderWorking")}

\* The price the claim gives a fill of a working order.
C16_FillPrice(order, is_slipped) ==
    IF ~is_slipped THEN order.price
    ELSE IF order.side = "BUY"
    THEN order.price + Instruments[order.symbol].tick_size
    ELSE order.price - Instruments[order.symbol].tick_size

\* C16 as amended: a working order filled in process_tick, STOP-kind or LIMIT,
\* is filled at its own price when is_slipped() is false and at its price plus
\* (BUY) or minus (SELL) the instrument's tick size when it is true, for its
\* full quantity; the bid and the ask of the tick do not enter the fill price.
C16_FilledAtOrderPrice ==
    \A i \in WorkingFills :
        /\ events[i].price = C16_FillPrice(orders[events[i].order_id], events[i].is_slipped)
        /\ events[i].quantity = orders[events[i].order_id].quantity

\* C16 as stated: the same, and the fill price is never the bid or the ask of
\* the tick that filled the order.
C16_FillPriceNeverBidOrAsk ==
    last_op.kind = "process_tick"
        => \A i \in WorkingFills \cap EventsOfLastOp :
              /\ events[i].price
                     = C16_FillPrice(orders[events[i].order_id], events[i].is_slipped)
              /\ events[i].quantity = orders[events[i].order_id].quantity
              /\ events[i].price \notin {last_op.quote.bid, last_op.quote.ask}

\* C16 happens: a working SELL LIMIT is filled, slipped, by a tick whose bid is
\* one tick size above the order price: the fill is one tick size below it.
C16_Witness ==
    /\ last_op.kind = "process_tick"
    /\ \E i \in WorkingFills \cap EventsOfLastOp :
          LET order == orders[events[i].order_id]
          IN  /\ order.side = "SELL" /\ order.type = "LIMIT"
              /\ events[i].is_slipped
              /\ last_op.quote.bid = order.price + Instruments[order.symbol].tick_size
              /\ events[i].price = order.price - Instruments[order.symbol].tick_size

\* When the claim has price validation reject an order, given the latest quote
\* of the order's symbol.
C17_Rejects(order, quote) ==
    \/ /\ order.side = "BUY" /\ order.type \in STOP_ORDER_TYPES
       /\ order.price < quote.ask + MinStops[order.symbol]
    \/ /\ order.side = "BUY" /\ order.type = "LIMIT"
       /\ order.price > quote.bid - MinLimits[order.symbol]
    \/ /\ order.side = "SELL" /\ order.type \in STOP_ORDER_TYPES
       /\ order.price > quote.bid - MinStops[order.symbol]
    \/ /\ order.side = "SELL" /\ order.type = "LIMIT"
       /\ order.price < quote.ask + MinLimits[order.symbol]

\* The order's quantity is within the instrument's trade sizes.
SizeInRange(order) ==
    /\ order.quantity <= Instruments[order.symbol].max_trade_size
    /\ order.quantity >= Instruments[order.symbol].min_trade_size

\* The rejections for price that the operation that ran last has delivered.
PriceRejectionsOfLastOp(id) ==
    {i \in EventsOf(id, {"OrderRejected"}) \cap EventsOfLastOp :
        events[i].reason = "too far from the market"}

\* The order a submit command that ran last was about.
SubmittedByLastOp(id) ==
    /\ last_op.kind \in {"submit_order", "submit_atomic_order"}
    /\ events[last_op.first_event].kind = "OrderSubmitted"
    /\ events[last_op.first_event].order_id = id

\* C17: price validation rejects an order exactly when: BUY STOP-kind: price <
\* ask + min_stop; BUY LIMIT: price > bid - min_limit; SELL STOP-kind: price >
\* bid - min_stop; SELL LIMIT: price < ask + min_limit, with the bid and the ask
\* of the latest tick of the order's symbol; a price equal to the bound is
\* accepted and a MARKET order is never rejected on price.
C17_PriceValidation ==
    \A id \in OrderIds :
        LET order == orders[id]
            quote == market[order.symbol]
        IN  /\ PriceRejectionsOfLastOp(id) # {} => C17_Rejects(order, quote)
            /\ EventsOf(id, {"OrderAccepted"}) \cap EventsOfLastOp # {}
                  => ~C17_Rejects(order, quote)
            /\ (SubmittedByLastOp(id) /\ SizeInRange(order) /\ quote # NoTick)
                  => /\ C17_Rejects(order, quote) <=> PriceRejectionsOfLastOp(id) # {}
                     /\ ~C17_Rejects(order, quote)
                           <=> EventsOf(id, {"OrderAccepted"}) \cap EventsOfLastOp # {}

\* C17 happens: a BUY order of a STOP kind other than STOP whose price equals
\* ask + min_stop has been submitted and accepted.
C17_Witness ==
    \E id \in OrderIds :
        /\ SubmittedByLastOp(id)
        /\ orders[id].side = "BUY"
        /\ orders[id].type \in STOP_ORDER_TYPES \ {"STOP"}
        /\ orders[id].price = market[orders[id].symbol].ask + MinStops[orders[id].symbol]
        /\ Emitted(id, "OrderAccepted")

\* What the claim expects of an order submitted with no market for its symbol:
\* OrderSubmitted, then OrderRejected for 'no market', no OrderAccepted, and
\* the order is no key of working_orders at any time.
RejectedForNoMarket(id) ==
    LET f == last_op.first_event
    IN  /\ Len(events) = f + 1
        /\ events[f + 1].kind = "OrderRejected"
        /\ events[f + 1].order_id = id
        /\ events[f + 1].reason = "no market"
        /\ ~Emitted(id, "OrderAccepted")
        /\ ~InSeq(working_orders, id)
        /\ \A i \in 1..Len(events) : ~InSeq(events[i].working, id)

\* C18 as stated: any order submitted before any tick has been processed for
\* its symbol is rejected with the reason 'no market for <symbol>'.
C18_AnyOrderNoMarket ==
    \A id \in OrderIds :
        (SubmittedByLastOp(id) /\ market[orders[id].symbol] = NoTick)
            => RejectedForNoMarket(id)

\* C18 as amended: an order of a size within the instrument's limits that is
\* submitted before any tick has been processed for its symbol is rejected with
\* the reason 'no market for <symbol>': OrderSubmitted then OrderRejected are
\* emitted, no OrderAccepted, and the order does not enter working_orders.
C18_NoMarketRejected ==
    \A id \in OrderIds :
        (/\ SubmittedByLastOp(id)
         /\ market[orders[id].symbol] = NoTick
         /\ SizeInRange(orders[id]))
            => RejectedForNoMarket(id)

\* C18 happens: a priced order of valid size is rejected for no market after a
\* tick of another symbol has been processed.
C18_Witness ==
    \E id \in OrderIds :
        /\ SubmittedByLastOp(id)
        /\ market[orders[id].symbol] = NoTick
        /\ \E sym \in Symbols : market[sym] # NoTick
        /\ SizeInRange(orders[id])
        /\ orders[id].type # "MARKET"
        /\ order_state[id] = "REJECTED"

\* The reason the size check gives for this order ("" when the size is in range).
SizeReason(order) ==
    IF order.quantity > Instruments[order.symbol].max_trade_size
    THEN "exceeds the maximum trade size"
    ELSE IF order.quantity < Instruments[order.symbol].min_trade_size
    THEN "less than the minimum trade size"
    ELSE ""

\* C19: an order whose quantity is greater than the instrument's max_trade_size
\* or less than its min_trade_size is rejected for its size (OrderRejected
\* right after OrderSubmitted), whatever the market and the price, is never
\* accepted and never a key of working_orders; an order whose quantity is
\* within the limits, the limits included, is not rejected for its size.
C19_SizeValidation ==
    \A id \in OrderIds :
        SubmittedByLastOp(id)
            => LET f == last_op.first_event
               IN  IF SizeReason(orders[id]) # ""
                   THEN /\ Len(events) = f + 1
                        /\ events[f + 1].kind = "OrderRejected"
                        /\ events[f + 1].order_id = id
                        /\ events[f + 1].reason = SizeReason(orders[id])
                        /\ ~Emitted(id, "OrderAccepted")
                        /\ ~InSeq(working_orders, id)
                        /\ \A i \in 1..Len(events) : ~InSeq(events[i].working, id)
                   ELSE \A i \in EventsOf(id, {"OrderRejected"}) :
                           events[i].reason \notin {"exceeds the maximum trade size",
                                                    "less than the minimum trade size"}

\* C19 happens: an order of a size above the maximum, whose price is invalid
\* against the market of its symbol as well, has been submitted and rejected.
C19_Witness ==
    \E id \in OrderIds :
        /\ SubmittedByLastOp(id)
        /\ orders[id].quantity > Instruments[orders[id].symbol].max_trade_size
        /\ market[orders[id].symbol] # NoTick
        /\ C17_Rejects(orders[id], market[orders[id].symbol])
        /\ order_state[id] = "REJECTED"

\* The kinds of the events about one order from the i-th event of the log on,
\* in the order of their delivery.
RECURSIVE KindsOf(_, _)
KindsOf(order_id, i) ==
    IF i > Len(events) THEN <<>>
    ELSE (IF events[i].order_id = order_id THEN <<events[i].kind>> ELSE <<>>)
         \o KindsOf(order_id, i + 1)

\* The price the claim gives the fill of a MARKET order.
C20_FillPrice(order, quote, is_slipped) ==
    IF order.side = "BUY"
    THEN quote.ask + (IF is_slipped THEN Instruments[order.symbol].tick_size ELSE 0)
    ELSE quote.bid - (IF is_slipped THEN Instruments[order.symbol].tick_size ELSE 0)

\* C20: a MARKET order of valid size submitted when a tick exists for its
\* symbol gets, within the submit call and in this order, OrderSubmitted,
\* OrderAccepted and OrderFilled, filled at the current ask (BUY) or bid (SELL)
\* moved one slippage unit against the order exactly when is_slipped() is true;
\* a MARKET order is never a key of working_orders and gets no OrderWorking.
C20_MarketOrderFilledAtOnce ==
    \A id \in OrderIds :
        orders[id].type = "MARKET"
            => /\ ~Emitted(id, "OrderWorking")
               /\ ~InSeq(working_orders, id)
               /\ \A i \in 1..Len(events) : ~InSeq(events[i].working, id)
               /\ (/\ SubmittedByLastOp(id)
                   /\ SizeInRange(orders[id])
                   /\ market[orders[id].symbol] # NoTick)
                     => /\ KindsOf(id, last_op.first_event)
                              = <<"OrderSubmitted", "OrderAccepted", "OrderFilled">>
                        /\ \A i \in EventsOf(id, {"OrderFilled"}) :
                              /\ events[i].price
                                     = C20_FillPrice(orders[id], market[orders[id].symbol],
                                                     events[i].is_slipped)
                              /\ events[i].quantity = orders[id].quantity

\* C20 happens: a SELL MARKET order has been submitted and filled, slipped, one
\* tick size below the bid.
C20_Witness ==
    \E id \in OrderIds :
        /\ SubmittedByLastOp(id)
        /\ orders[id].type = "MARKET" /\ orders[id].side = "SELL"
        /\ \E i \in EventsOf(id, {"OrderFilled"}) :
              /\ events[i].is_slipped
              /\ events[i].price
                     = market[orders[id].symbol].bid - Instruments[orders[id].symbol].tick_size

\* The step under way is a call of cancel_order.
IsCancelStep == last_op'.kind = "cancel_order" /\ n_commands' = n_commands + 1

\* The account fields are what they were before the step under way.
AccountUnchanged ==
    /\ account_capital' = account_capital
    /\ account_cash_start_day' = account_cash_start_day
    /\ account_cash_activity_day' = account_cash_activity_day
    /\ account_cash_balance' = account_cash_balance
    /\ total_commissions' = total_commissions
    /\ total_rollover' = total_rollover

\* What the OCO check for an order leaves behind: the pair is unlinked, and a
\* working partner is cancelled, after the event at index f, and removed.
OcoCheckRan(id, f) ==
    IF oco_orders[id] = NoOrderId
    THEN /\ oco_orders' = oco_orders
         /\ Len(events') = f
    ELSE LET partner == oco_orders[id]
         IN  /\ oco_orders'[id] = NoOrderId
             /\ oco_orders'[partner] = NoOrderId
             /\ InSeq(working_orders, partner)
                   => /\ ~InSeq(working_orders', partner)
                      /\ \E j \in NewEventsOf(partner, {"OrderCancelled"}) : j > f

\* C21: cancel_order for an id that is no key of working_orders emits exactly
\* one OrderCancelReject('cancel order', 'order not found') and leaves
\* working_orders, atomic_child_orders, oco_orders and the account unchanged;
\* for a key of working_orders it removes the order, emits OrderCancelled for
\* it and then runs the OCO check for that id.
C21_CancelOrder ==
    [][IsCancelStep =>
        LET id == last_op'.order_id
            f == Len(events) + 1
        IN  IF ~InSeq(working_orders, id)
            THEN /\ Len(events') = f
                 /\ events'[f].kind = "OrderCancelReject"
                 /\ events'[f].order_id = id
                 /\ events'[f].response = "cancel order"
                 /\ events'[f].reason = "order not found"
                 /\ working_orders' = working_orders
                 /\ atomic_child_orders' = atomic_child_orders
                 /\ oco_orders' = oco_orders
                 /\ AccountUnchanged
            ELSE /\ Len(events') >= f
                 /\ events'[f].kind = "OrderCancelled"
                 /\ events'[f].order_id = id
                 /\ ~InSeq(events'[f].working, id)
                 /\ ~InSeq(working_orders', id)
                 /\ \A j \in (f + 1)..Len(events') : events'[j].order_id # id
                 /\ OcoCheckRan(id, f)]_vars

\* C21 happens: a working order of an OCO pair has been cancelled by command
\* and its working partner has been cancelled by the OCO check.
C21_Witness ==
    /\ last_op.kind = "cancel_order"
    /\ \E i, j \in EventsOfLastOp :
          /\ i < j
          /\ events[i].kind = "OrderCancelled"
          /\ events[i].order_id = last_op.order_id
          /\ events[j].kind = "OrderCancelled"
          /\ events[j].order_id # last_op.order_id

\* The step under way is a call of modify_order.
IsModifyStep == last_op'.kind = "modify_order" /\ n_commands' = n_commands + 1

\* An order with the price and the quantity its OrderWorking event carried: the
\* price and quantity it was created with.
AsFirstWorked(id) ==
    LET w == CHOOSE i \in EventsOf(id, {"OrderWorking"}) : TRUE
    IN  [orders[id] EXCEPT !.price = events[w].price, !.quantity = events[w].quantity]

\* An order of the snapshot of working_orders that process_tick tests for a
\* fill on the tick of the step under way, after a successful modify_order.
ModifiedAndTested(id) ==
    /\ InSeq(working_orders, id)
    /\ Emitted(id, "OrderModified")
    /\ orders[id].symbol = last_op'.symbol
    /\ order_state[id] = "WORKING"
    /\ ~CancelledBeforeTurn(id)

\* C22: a successful modify_order emits OrderModified with the new quantity and
\* price but leaves the order stored in working_orders with its original price
\* and quantity: every later fill test, fill price and filled quantity of that
\* order uses the original price and quantity.
C22_ModifyKeepsStoredOrder ==
    [][/\ IsModifyStep
          => LET id == last_op'.order_id
             IN  \A j \in NewEventsOf(id, {"OrderModified"}) :
                    /\ Len(events') = Len(events) + 1
                    /\ events'[j].quantity = last_op'.modified_quantity
                    /\ events'[j].price = last_op'.modified_price
                    /\ orders'[id] = orders[id]
                    /\ working_orders' = working_orders
       /\ IsTickStep
          => \A id \in OrderIds :
                ModifiedAndTested(id)
                    => /\ orders[id] = AsFirstWorked(id)
                       /\ NewEventsOf(id, {"OrderFilled"}) # {}
                             <=> C14_FillCondition(AsFirstWorked(id), last_op'.quote)
                       /\ \A j \in NewEventsOf(id, {"OrderFilled"}) :
                             /\ events'[j].price
                                    = C16_FillPrice(AsFirstWorked(id), events'[j].is_slipped)
                             /\ events'[j].quantity = AsFirstWorked(id).quantity]_vars

\* C22 happens: an order modified to another quantity and price has been
\* filled by a later tick, for the quantity it was created with.
C22_Witness ==
    /\ last_op.kind = "process_tick"
    /\ \E id \in OrderIds :
          \E m \in EventsOf(id, {"OrderModified"}) :
              \E i \in EventsOf(id, {"OrderFilled"}) :
                  /\ i \in EventsOfLastOp
                  /\ m < i
                  /\ events[m].quantity # events[i].quantity
                  /\ events[m].price \notin {events[i].price - 1, events[i].price,
                                             events[i].price + 1}

\* A tick on which the modified price would have filled the order and the
\* original price does not: the order is still working.
C22_NotFilledAtModifiedPrice ==
    /\ last_op.kind = "process_tick"
    /\ \E id \in OrderIds :
          \E m \in EventsOf(id, {"OrderModified"}) :
              /\ InSeq(working_orders, id)
              /\ C14_FillCondition([orders[id] EXCEPT !.price = events[m].price],
                                   last_op.quote)

\* C23: modify_order on an order in working_orders with modified_quantity equal
\* to 0 is refused as a cancel-reject: one OrderCancelReject for that order id
\* is emitted, no OrderModified and no OrderRejected is emitted, and the order
\* stays in working_orders unchanged.
C23_ZeroQuantityCancelReject ==
    [][(/\ IsModifyStep
        /\ InSeq(working_orders, last_op'.order_id)
        /\ last_op'.modified_quantity = 0)
          => LET id == last_op'.order_id
                 f == Len(events) + 1
             IN  /\ Len(events') = f
                 /\ events'[f].kind = "OrderCancelReject"
                 /\ events'[f].order_id = id
                 /\ working_orders' = working_orders
                 /\ orders'[id] = orders[id]]_vars

\* C24: modify_order on a working order with a modified quantity other than
\* zero runs the price validation again, for the order as it is stored, against
\* the latest tick of the order's symbol: when it fails, an OrderRejected is
\* emitted for the order through _reject_order (then the OCO check and the
\* clean-up of its children) and no OrderModified; when it passes, exactly one
\* OrderModified with the command's modified quantity and price is emitted.
C24_ModifyValidatesPrice ==
    [][(/\ IsModifyStep
        /\ InSeq(working_orders, last_op'.order_id)
        /\ last_op'.modified_quantity # 0)
          => LET id == last_op'.order_id
                 f == Len(events) + 1
             IN  /\ Len(events') >= f
                 /\ events'[f].order_id = id
                 /\ IF C17_Rejects(orders[id], market[orders[id].symbol])
                    THEN /\ events'[f].kind = "OrderRejected"
                         /\ events'[f].reason = "too far from the market"
                         /\ NewEventsOf(id, {"OrderModified"}) = {}
                         /\ OcoCheckRan(id, f)
                         /\ atomic_child_orders'[id] = <<>>
                    ELSE /\ Len(events') = f
                         /\ events'[f].kind = "OrderModified"
                         /\ events'[f].quantity = last_op'.modified_quantity
                         /\ events'[f].price = last_op'.modified_price]_vars

\* C24 happens: a modify_order for a working order of an OCO pair has failed
\* the price validation: the order is rejected and its working partner is
\* cancelled by the OCO check.
C24_Witness ==
    /\ last_op.kind = "modify_order"
    /\ \E i, j \in EventsOfLastOp :
          /\ i < j
          /\ events[i].kind = "OrderRejected"
          /\ events[i].order_id = last_op.order_id
          /\ events[j].kind = "OrderCancelled"
          /\ events[j].order_id # last_op.order_id

\* The step under way is a command, not a tick.
IsCommandStep == last_op'.kind # "process_tick" /\ last_op' # last_op

\* C25: a working order with an expire_time is expired (removed from
\* working_orders, then OrderExpired emitted) exactly when a tick for its own
\* symbol is processed with clock >= expire_time and the fill test does not
\* fire on that tick; ticks for other symbols and commands never expire it, so
\* the order stays in working_orders past its expire_time until such a tick.
C25_ExpiredOnlyByOwnTick ==
    [][/\ IsTickStep
          => \A id \in OrderIds :
                /\ NewEventsOf(id, {"OrderExpired"}) # {}
                      => InSeq(working_orders, id) /\ orders[id].expire_time # NoTime
                /\ (/\ InSeq(working_orders, id)
                    /\ order_state[id] = "WORKING"
                    /\ orders[id].expire_time # NoTime
                    /\ ~CancelledBeforeTurn(id))
                      => /\ NewEventsOf(id, {"OrderExpired"}) # {}
                               <=> /\ orders[id].symbol = last_op'.symbol
                                   /\ clock' >= orders[id].expire_time
                                   /\ ~C14_FillCondition(orders[id], last_op'.quote)
                         /\ \A j \in NewEventsOf(id, {"OrderExpired"}) :
                               /\ ~InSeq(events'[j].working, id)
                               /\ ~InSeq(working_orders', id)
                               /\ events'[j].expire_time = orders[id].expire_time
                         /\ (/\ NewEventsOf(id, {"OrderExpired"}) = {}
                             /\ NewEventsOf(id, {"OrderFilled"}) = {})
                               => InSeq(working_orders', id)
       /\ IsCommandStep
          => \A id \in OrderIds : NewEventsOf(id, {"OrderExpired"}) = {}]_vars

\* C25 happens: an order has been expired by a tick of its symbol later than
\* its expire_time: it had stayed in working_orders past that time.
C25_Witness ==
    /\ last_op.kind = "process_tick"
    /\ \E id \in OrderIds :
          \E i \in EventsOf(id, {"OrderExpired"}) :
              /\ i \in EventsOfLastOp
              /\ orders[id].symbol = last_op.symbol
              /\ events[i].timestamp > orders[id].expire_time

\* A tick of another symbol at or after the expire_time of a working order has
\* left the order in working_orders.
C25_LeftWorkingByOtherSymbol ==
    /\ last_op.kind = "process_tick"
    /\ \E id \in OrderIds :
          /\ InSeq(working_orders, id)
          /\ orders[id].expire_time # NoTime
          /\ clock >= orders[id].expire_time
          /\ orders[id].symbol # last_op.symbol

\* The step under way has applied rollover interest.
RolloverAppliedInStep ==
    /\ Len(ledger') > Len(ledger)
    /\ ledger'[Len(ledger) + 1].source = "rollover"

\* C26: within one process_tick call the rollover AccountStateEvent, when
\* rollover is applied on that tick, is emitted before every fill and expiry
\* event of the tick, and the fill and expiry events of working orders are
\* emitted in the insertion order working_orders had when the scan started.
C26_TickEventOrder ==
    [][IsTickStep =>
        /\ (RolloverAppliedInStep /\ ~frozen_account)
              => LET f == Len(events) + 1
                 IN  /\ Len(events') >= f
                     /\ events'[f].kind = "AccountStateEvent"
                     /\ events'[f].cash_balance
                            = account_capital + ledger'[Len(ledger) + 1].rollover
                     /\ \A id \in OrderIds :
                           \A j \in NewEventsOf(id, {"OrderFilled", "OrderExpired"}) : j > f
        /\ \A a, b \in OrderIds :
              (/\ InSeq(working_orders, a)
               /\ InSeq(working_orders, b)
               /\ Pos(working_orders, a) < Pos(working_orders, b))
                  => \A i \in NewEventsOf(a, {"OrderFilled", "OrderExpired"}) :
                        \A j \in NewEventsOf(b, {"OrderFilled", "OrderExpired"}) : i < j]_vars

\* C26 happens: one tick has delivered the rollover account state, then the
\* fill or expiry events of two orders that were working when it arrived.
C26_Witness ==
    /\ last_op.kind = "process_tick"
    /\ Len(events) >= last_op.first_event
    /\ events[last_op.first_event].kind = "AccountStateEvent"
    /\ Len(ledger) > 0
    /\ ledger[Len(ledger)].source = "rollover"
    /\ ledger[Len(ledger)].delivered = last_op.first_event - 1
    /\ \E a, b \in OrderIds :
          /\ a # b
          /\ \E i \in EventsOf(a, {"OrderFilled"}) \cap EventsOfLastOp :
                InSeq(events[last_op.first_event].working, a)
          /\ \E j \in EventsOf(b, {"OrderExpired"}) \cap EventsOfLastOp :
                InSeq(events[last_op.first_event].working, b)

\* The fills for which the database answered a position whose entry_direction
\* differs from the side of the filled order.
ClosingFills ==
    {i \in 1..Len(events) :
        /\ events[i].kind = "OrderFilled"
        /\ events[i].position_direction
               \notin {"NONE", orders[events[i].order_id].side}}

\* The events that the OCO check and the release of the children bring about
\* after the fill of an order: the cancellation or rejection of its OCO partner
\* and the events of its children (but for the answer to a command that names
\* a child still held back).
EventsAfterFillOf(id) ==
    {j \in 1..Len(events) :
        /\ events[j].order_id \in OrderIds
        /\ \/ /\ entry_of[events[j].order_id] = id
              /\ events[j].kind # "OrderCancelReject"
           \/ /\ events[j].order_id \in OcoPartners(id)
              /\ events[j].kind \in {"OrderCancelled", "OrderRejected"}}

\* C27: when an order fills and the database returns a position for it whose
\* entry_direction differs from the order's side, adjust_account runs before
\* the fill event is delivered: with a non-frozen account the AccountStateEvent
\* carrying the capital updated by pnl minus commission is emitted immediately
\* before that order's OrderFilled; the OCO check and the release of the
\* children happen only after the OrderFilled.
C27_AdjustBeforeFillEvent ==
    /\ \A i \in ClosingFills :
          \E k \in 1..Len(ledger) :
              /\ ledger[k].source = "fill"
              /\ IF frozen_account
                 THEN ledger[k].delivered = i - 1
                 ELSE /\ ledger[k].delivered = i - 2
                      /\ events[i - 1].kind = "AccountStateEvent"
                      /\ events[i - 1].cash_balance
                             = StartingCapital + LedgerSum(k - 1)
                               + ledger[k].pnl - ledger[k].commission
    /\ \A i \in 1..Len(events) :
          events[i].kind = "OrderFilled"
              => \A j \in EventsAfterFillOf(events[i].order_id) : j > i

\* C27 happens: with a non-frozen account, a fill that closes a position at a
\* net pnl other than zero has been delivered right after its account state,
\* and the working OCO partner of the filled order has been cancelled after it.
C27_Witness ==
    /\ ~frozen_account
    /\ \E i \in ClosingFills :
          /\ events[i - 1].kind = "AccountStateEvent"
          /\ i > 2
          /\ \E k \in 1..Len(ledger) :
                ledger[k].delivered = i - 2 /\ ledger[k].pnl # ledger[k].commission
          /\ \E j \in EventsAfterFillOf(events[i].order_id) :
                events[j].kind = "OrderCancelled"

\* The step under way is a call of process_tick; its tick can carry the
\* timestamp of the tick before it.
IsAnyTickStep == last_op'.kind = "process_tick" /\ last_op' # last_op

\* The tick of the step under way is the first of its calendar day at or after
\* the rollover time of that day (the clock holds the time of the tick before).
FirstTickAtRolloverTime ==
    /\ clock' >= RolloverTimeOf(clock')
    /\ clock < RolloverTimeOf(clock')

\* When the claim has a tick apply rollover interest, and what it says of
\* rollover_applied.
C28_OncePerDay ==
    /\ RolloverAppliedInStep <=> FirstTickAtRolloverTime
    /\ RolloverAppliedInStep => rollover_applied'
    /\ (rollover_applied /\ ~rollover_applied') => DayOf(clock') # day_number
    /\ Len(ledger') <= Len(ledger) + 1

DayInSync ==
    \/ day_number = 0
    \/ day_number = DayOf(clock) /\ rollover_time = RolloverTimeOf(clock)

\* The tick of the step under way falls on another calendar day than the tick
\* before it, but on the same day of the month.
SameDayOfMonthLater ==
    DayIndex(clock') # DayIndex(clock) /\ DayOf(clock') = day_number

C28_AppliedBeforeRolloverTime ==
    /\ last_op.kind = "process_tick"
    /\ rollover_applied
    /\ Len(ledger) = 1
    /\ clock < RolloverTimeOf(clock)

\* The interest of the open FX positions at the quotes of the market: mid x
\* quantity x overnight rate x exchange rate, less the rollover_spread markup.
RECURSIVE FxInterest(_, _, _)
FxInterest(positions, quotes, rate) ==
    IF positions = <<>> THEN 0
    ELSE LET p == Head(positions)
             interest == ((quotes[p.symbol].bid + quotes[p.symbol].ask) * p.quantity
                          * rate * ExchangeRate(p.symbol)) \div 2
         IN  (IF Instruments[p.symbol].security_type = "FOREX"
              THEN interest - interest * RolloverSpread
              ELSE 0)
             + FxInterest(Tail(positions), quotes, rate)

\* C29: one application of rollover interest adds to total_rollover (and, when
\* the account is not frozen, to account_capital and cash_activity_day) the sum
\* over the open FX positions of mid x quantity x overnight rate x exchange
\* rate, reduced by the rollover_spread markup, multiplied by 3 when the ISO
\* weekday is 3 or 5 and by 1 on every other weekday; positions in non-FX
\* instruments contribute nothing.
C29_RolloverAmount ==
    [][(IsTickStep /\ RolloverAppliedInStep) =>
        LET amount == ledger'[Len(ledger) + 1].rollover
            iso_week_day == IsoWeekDay(rollover_time')
            times == IF iso_week_day \in {3, 5} THEN 3 ELSE 1
            activity == IF day_number' # day_number THEN 0
                        ELSE account_cash_activity_day
        IN  /\ amount = FxInterest(last_op'.open_positions, market',
                                    last_op'.interest_rate) * times
            /\ total_rollover' = total_rollover + amount
            /\ (~frozen_account /\ Len(ledger') = Len(ledger) + 1)
                  => /\ account_capital' = account_capital + amount
                     /\ account_cash_activity_day' = activity + amount
            /\ (frozen_account /\ Len(ledger') = Len(ledger) + 1)
                  => /\ account_capital' = account_capital
                     /\ account_cash_activity_day' = activity
            /\ \A wd \in 1..7 :
                  RolloverFactor(wd) = IF wd \in {3, 5} THEN 3 ELSE 1]_vars

\* C29 happens: on a Friday the rollover interest has been applied to an open FX
\* position and an open position in the other instrument, and is three times
\* the interest of the FX position alone.
C29_Witness ==
    /\ last_op.kind = "process_tick"
    /\ Len(ledger) >= 1
    /\ ledger[Len(ledger)].source = "rollover"
    /\ ledger[Len(ledger)].delivered >= last_op.first_event - 1
    /\ IsoWeekDay(rollover_time) = 5
    /\ \E i, j \in 1..Len(last_op.open_positions) :
          /\ last_op.open_positions[i].symbol = "EURUSD"
          /\ last_op.open_positions[j].symbol = "XAUUSD"
          /\ Len(last_op.open_positions) = 2
          /\ ledger[Len(ledger)].rollover
                = 3 * FxInterest(<<last_op.open_positions[i]>>, market,
                                 last_op.interest_rate)
    /\ ledger[Len(ledger)].rollover # 0
    /\ ~frozen_account
    /\ account_capital = StartingCapital + total_rollover - total_commissions

\* On a Saturday the rollover interest of an open FX position is booked once.
C29_BookedOnce ==
    /\ last_op.kind = "process_tick"
    /\ Len(ledger) >= 1
    /\ ledger[Len(ledger)].source = "rollover"
    /\ ledger[Len(ledger)].delivered >= last_op.first_event - 1
    /\ IsoWeekDay(rollover_time) = 6
    /\ Len(last_op.open_positions) = 1
    /\ ledger[Len(ledger)].rollover
          = FxInterest(last_op.open_positions, market, last_op.interest_rate)
    /\ ledger[Len(ledger)].rollover # 0

\* The tick of the step under way is the first tick, or falls on another
\* calendar day than the tick before it.
TickOfNewDay == clock = 0 \/ DayIndex(clock') # DayIndex(clock)

\* C30: on every tick whose calendar day differs from the day of the previously
\* processed tick (and on the first tick), cash_start_day is set to the
\* account's cash balance at that instant, that is the capital after all pnl,
\* commission and rollover applied so far, and cash_activity_day is reset to
\* zero, before any event of that tick is emitted; a tick on the same calendar
\* day as the previous one resets neither.
C30_CashStartDayOnNewDay ==
    [][IsAnyTickStep =>
        LET f == Len(events) + 1
        IN  IF TickOfNewDay
            THEN /\ account_cash_start_day' = account_capital
                 /\ (Len(events') >= f /\ events'[f].kind = "AccountStateEvent")
                       => /\ events'[f].cash_start_day = account_capital
                          /\ events'[f].cash_activity_day
                                = events'[f].cash_balance - account_capital
            ELSE /\ account_cash_start_day' = account_cash_start_day
                 /\ (Len(events') >= f /\ events'[f].kind = "AccountStateEvent")
                       => events'[f].cash_activity_day
                             = account_cash_activity_day
                               + (events'[f].cash_balance - account_capital)]_vars

\* The step under way is a call of submit_atomic_order.
IsSubmitAtomicStep == last_op'.kind = "submit_atomic_order" /\ n_submits' = n_submits + 1

\* The events about one order that the step under way delivers, of any kind.
NewEventsAbout(order_id) ==
    {j \in (Len(events) + 1)..Len(events') : events'[j].order_id = order_id}

\* C31: for submit_atomic_order the events are emitted in the order
\* OrderSubmitted(entry), then OrderAccepted(entry) or OrderRejected(entry), then
\* OrderWorking(entry) or OrderFilled(entry); the events of the children are
\* emitted only after OrderFilled(entry), the stop-loss child being processed
\* before the take-profit child.
C31_AtomicEventOrder ==
    [][IsSubmitAtomicStep =>
        LET f == Len(events) + 1
            entry_id == NextOrderId
            stop_loss_id == entry_id + 1
            take_profit_id == entry_id + 2
            children == {c \in OrderIds : entry_of'[c] = entry_id}
        IN  /\ Len(events') >= f + 1
            /\ events'[f].order_id = entry_id
            /\ events'[f].kind = "OrderSubmitted"
            /\ events'[f + 1].order_id = entry_id
            /\ events'[f + 1].kind \in {"OrderAccepted", "OrderRejected"}
            /\ events'[f + 1].kind = "OrderRejected" => Len(events') = f + 1
            /\ events'[f + 1].kind = "OrderAccepted"
                  => LET rest == {j \in NewEventsAbout(entry_id) : j > f + 1}
                     IN  /\ Cardinality(rest) = 1
                         /\ \A j \in rest :
                               events'[j].kind \in {"OrderWorking", "OrderFilled"}
            /\ stop_loss_id \in children
            /\ \A c \in children :
                  \A i \in NewEventsAbout(c) :
                      \E j \in NewEventsOf(entry_id, {"OrderFilled"}) : j < i
            /\ take_profit_id \in children
                  => \A i \in NewEventsAbout(take_profit_id) :
                        \E j \in NewEventsAbout(stop_loss_id) : j < i]_vars

\* C31 happens: submit_atomic_order has filled a market entry and then worked
\* the stop-loss and, after it, the take-profit.
C31_Witness ==
    /\ last_op.kind = "submit_atomic_order"
    /\ \E e, sl, tp \in OrderIds :
          /\ sl = e + 1 /\ tp = e + 2
          /\ entry_of[sl] = e /\ entry_of[tp] = e
          /\ KindsOf(e, last_op.first_event)
                = <<"OrderSubmitted", "OrderAccepted", "OrderFilled">>
          /\ KindsOf(sl, last_op.first_event) = <<"OrderAccepted", "OrderWorking">>
          /\ KindsOf(tp, last_op.first_event) = <<"OrderAccepted", "OrderWorking">>
          /\ \A i \in EventsOf(sl, {"OrderWorking"}), j \in EventsOf(tp, {"OrderAccepted"}) :
                i < j

\* The stop-loss child was rejected by the validation of _process_order at the
\* i-th event: not by an OCO rejection, and not after having been accepted.
RejectedByValidation(stop_loss_id, i) ==
    /\ events[i].order_id = stop_loss_id
    /\ events[i].kind = "OrderRejected"
    /\ events[i].oco_from = NoOrderId
    /\ \A j \in EventsOf(stop_loss_id, {"OrderAccepted"}) : j > i

\* C32: if, when the entry of an atomic order with both children fills, the
\* stop-loss child is rejected by size, market or price validation, then the
\* take-profit child still pending in atomic_child_orders is rejected with the
\* reason 'OCO order rejected from <stop-loss id>', is never accepted and never
\* enters working_orders, and both oco_orders entries of the pair are erased.
C32_StopLossRejectionRejectsTakeProfit ==
    \A stop_loss_id, take_profit_id \in OrderIds :
        (/\ entry_of[stop_loss_id] # NoOrderId
         /\ entry_of[take_profit_id] = entry_of[stop_loss_id]
         /\ stop_loss_id < take_profit_id)
            => \A i \in 1..Len(events) :
                  RejectedByValidation(stop_loss_id, i)
                      => /\ \E j \in EventsOf(entry_of[stop_loss_id], {"OrderFilled"}) : j < i
                         /\ Len(events) > i
                         /\ events[i + 1].order_id = take_profit_id
                         /\ events[i + 1].kind = "OrderRejected"
                         /\ events[i + 1].reason = "OCO order rejected from"
                         /\ events[i + 1].oco_from = stop_loss_id
                         /\ EventsOf(take_profit_id,
                                     {"OrderSubmitted", "OrderAccepted", "OrderWorking",
                                      "OrderFilled", "OrderCancelled", "OrderExpired",
                                      "OrderModified", "OrderRejected"}) = {i + 1}
                         /\ ~InSeq(working_orders, take_profit_id)
                         /\ \A k \in 1..Len(events) :
                               ~InSeq(events[k].working, take_profit_id)
                         /\ oco_orders[stop_loss_id] = NoOrderId
                         /\ oco_orders[take_profit_id] = NoOrderId
                         /\ order_state[take_profit_id] = "REJECTED"

\* C32 happens: the entry of an atomic order with both children has filled, on a
\* tick, its stop-loss has been rejected for its price and its take-profit by
\* the OCO check.
C32_Witness ==
    \E stop_loss_id, take_profit_id \in OrderIds :
        /\ entry_of[stop_loss_id] # NoOrderId
        /\ entry_of[take_profit_id] = entry_of[stop_loss_id]
        /\ stop_loss_id < take_profit_id
        /\ last_op.kind = "process_tick"
        /\ Emitted(entry_of[stop_loss_id], "OrderWorking")
        /\ \E i \in EventsOfLastOp :
              /\ RejectedByValidation(stop_loss_id, i)
              /\ events[i].reason = "too far from the market"
              /\ i < Len(events)
              /\ events[i + 1].order_id = take_profit_id
              /\ events[i + 1].oco_from = stop_loss_id

\* The step under way is a call of submit_order with an order whose id is
\* already known.
IsResubmitStep ==
    /\ last_op'.kind = "submit_order"
    /\ last_op'.order_id # NoOrderId
    /\ n_commands' = n_commands + 1

\* C33: processing an order whose id is currently a key of working_orders is a
\* hard failure: _process_order raises before any check, no OrderAccepted,
\* OrderRejected or OrderWorking event is emitted for it, and working_orders
\* still maps the id to the order that was already working.
C33_DuplicateIdRaises ==
    [][(IsResubmitStep /\ InSeq(working_orders, last_op'.order_id)) =>
        LET id == last_op'.order_id
        IN  /\ last_op'.raised
            /\ NewEventsOf(id, {"OrderAccepted", "OrderRejected", "OrderWorking",
                                "OrderFilled"}) = {}
            /\ Len(events') = Len(events) + 1
            /\ events'[Len(events')].kind = "OrderSubmitted"
            /\ working_orders' = working_orders
            /\ orders'[id] = orders[id]
            /\ AccountUnchanged]_vars

\* C33 happens: an order of a size out of range has been submitted under the id
\* of a working order; the call raised, and the working order is still working.
C33_Witness ==
    /\ last_op.kind = "submit_order"
    /\ last_op.raised
    /\ last_op.order_id # NoOrderId
    /\ last_op.modified_quantity > Instruments[last_op.symbol].max_trade_size
    /\ InSeq(working_orders, last_op.order_id)
    /\ orders[last_op.order_id].quantity = 2
    /\ events[Len(events)].kind = "OrderSubmitted"
    /\ events[Len(events)].order_id = last_op.order_id
    /\ Len(events) = last_op.first_event

\* An order of the snapshot of working_orders that the tick of the step under
\* way finds due for expiry and passing the fill test.
DueAndFillable(id) ==
    /\ InSeq(working_orders, id)
    /\ orders[id].symbol = last_op'.symbol
    /\ order_state[id] = "WORKING"
    /\ ~CancelledBeforeTurn(id)
    /\ orders[id].expire_time # NoTime
    /\ clock' >= orders[id].expire_time
    /\ \/ C14_FillCondition(orders[id], last_op'.quote)
       \/ C14_MarginalCondition(orders[id], last_op'.quote, last_op'.is_stop_filled,
                                last_op'.is_limit_filled)

\* C34: fill takes priority over expiry: when a tick for the order's symbol
\* arrives with clock >= expire_time and the fill test of the working order
\* also fires on that tick, the order is filled (OrderFilled emitted) and no
\* OrderExpired is emitted for it.
C34_FillBeforeExpiry ==
    [][IsTickStep =>
        \A id \in OrderIds :
            DueAndFillable(id)
                => /\ Cardinality(NewEventsOf(id, {"OrderFilled"})) = 1
                   /\ NewEventsOf(id, {"OrderExpired"}) = {}
                   /\ order_state'[id] = "FILLED"
                   /\ ~InSeq(working_orders', id)]_vars

\* C34 happens: a tick at the expire_time of a working order, passing its fill
\* test, has filled the order; the order has not expired.
C34_Witness ==
    /\ last_op.kind = "process_tick"
    /\ \E id \in OrderIds :
          /\ orders[id].expire_time # NoTime
          /\ clock >= orders[id].expire_time
          /\ orders[id].symbol = last_op.symbol
          /\ Emitted(id, "OrderWorking")
          /\ \E i \in EventsOf(id, {"OrderFilled"}) : i \in EventsOfLastOp
          /\ ~Emitted(id, "OrderExpired")
          /\ order_state[id] = "FILLED"

\* The fill test of an order passes on the tick of the step under way.
PassesFillTest(id) ==
    \/ C14_FillCondition(orders[id], last_op'.quote)
    \/ C14_MarginalCondition(orders[id], last_op'.quote, last_op'.is_stop_filled,
                             last_op'.is_limit_filled)

\* Both orders of an OCO pair are working, a before b in working_orders, and the
\* tick of the step under way passes the fill test of both.
BothFillable(a, b) ==
    /\ oco_orders[a] = b
    /\ InSeq(working_orders, a) /\ InSeq(working_orders, b)
    /\ Pos(working_orders, a) < Pos(working_orders, b)
    /\ order_state[a] = "WORKING" /\ order_state[b] = "WORKING"
    /\ orders[a].symbol = last_op'.symbol /\ orders[b].symbol = last_op'.symbol
    /\ PassesFillTest(a) /\ PassesFillTest(b)

\* C35: over any sequence of commands and ticks at most one order of an OCO pair
\* is ever filled: when both orders of a pair are working and a single tick
\* satisfies the fill test of both, the first in scan order is filled, the
\* second is cancelled by the OCO check and is skipped by the rest of the scan,
\* and no OrderFilled is emitted for it.
C35_OneOfPairFilled ==
    [][/\ \A a, b \in OrderIds :
             (a # b /\ entry_of[a] # NoOrderId /\ entry_of[a] = entry_of[b])
                 => ~(/\ \E i \in 1..Len(events') :
                            events'[i].order_id = a /\ events'[i].kind = "OrderFilled"
                      /\ \E i \in 1..Len(events') :
                            events'[i].order_id = b /\ events'[i].kind = "OrderFilled")
       /\ IsTickStep
             => \A a, b \in OrderIds :
                   BothFillable(a, b)
                       => /\ Cardinality(NewEventsOf(a, {"OrderFilled"})) = 1
                          /\ Cardinality(NewEventsOf(b, {"OrderCancelled"})) = 1
                          /\ NewEventsAbout(b) = NewEventsOf(b, {"OrderCancelled"})
                          /\ \A i \in NewEventsOf(a, {"OrderFilled"}),
                                j \in NewEventsOf(b, {"OrderCancelled"}) : i < j
                          /\ ~InSeq(working_orders', b)
                          /\ order_state'[b] = "CANCELLED"]_vars

\* C35 happens: a tick passing the fill test of both working orders of an OCO
\* pair, two stops at one price, has filled the stop-loss and cancelled the
\* take-profit.
C35_Witness ==
    /\ last_op.kind = "process_tick"
    /\ \E a, b \in OrderIds :
          /\ a # b /\ entry_of[a] # NoOrderId /\ entry_of[a] = entry_of[b]
          /\ orders[a].type = "STOP" /\ orders[b].type = "STOP"
          /\ orders[a].price = orders[b].price
          /\ Emitted(a, "OrderWorking") /\ Emitted(b, "OrderWorking")
          /\ C14_FillCondition(orders[b], last_op.quote)
          /\ \E i \in EventsOf(a, {"OrderFilled"}), j \in EventsOf(b, {"OrderCancelled"}) :
                i \in EventsOfLastOp /\ j \in EventsOfLastOp /\ i < j
          /\ ~Emitted(b, "OrderFilled")

\* The fills that the step under way delivers.
NewFills ==
    {j \in (Len(events) + 1)..Len(events') : events'[j].kind = "OrderFilled"}

\* Those of them for which the database held a position entered on the other
\* side than the order's.
NewClosingFills ==
    {j \in NewFills :
        events'[j].position_direction
            \notin {"NONE", orders'[events'[j].order_id].side}}

\* C36: a fill of an order for which the execution database holds no position,
\* or holds a position whose entry_direction equals the order's side, leaves
\* account_capital, cash_activity_day and total_commissions unchanged and emits
\* no AccountStateEvent: commission is charged only on fills that close or
\* reduce an opposite position.
C36_OnlyClosingFillsAdjust ==
    [][/\ Len(ledger') - Len(ledger)
              = Cardinality(NewClosingFills) + (IF RolloverAppliedInStep THEN 1 ELSE 0)
       /\ total_commissions' # total_commissions => NewClosingFills # {}
       /\ (NewFills # {} /\ NewClosingFills = {} /\ ~RolloverAppliedInStep)
             => /\ account_capital' = account_capital
                /\ total_commissions' = total_commissions
                /\ account_cash_activity_day'
                      = (IF day_number' # day_number THEN 0
                         ELSE account_cash_activity_day)
                /\ \A j \in (Len(events) + 1)..Len(events') :
                      events'[j].kind # "AccountStateEvent"]_vars

\* C36 happens: with a non-frozen account, one tick has filled two orders of one
\* side, the second with the position the first had opened; no commission has
\* been charged and no account state has followed the rollover's.
C36_Witness ==
    /\ last_op.kind = "process_tick"
    /\ ~frozen_account
    /\ total_commissions = 0
    /\ \A k \in 1..Len(ledger) : ledger[k].source = "rollover"
    /\ \E i, j \in EventsOfLastOp :
          /\ i < j
          /\ events[i].kind = "OrderFilled" /\ events[j].kind = "OrderFilled"
          /\ events[i].position_direction = "NONE"
          /\ events[j].position_direction = orders[events[j].order_id].side
          /\ \A k \in i..j : events[k].kind # "AccountStateEvent"
    /\ account_capital = StartingCapital + total_rollover

\* What the claim makes of a modify_order on a working order: OrderRejected when
\* the stored price fails the validation against the latest tick of the order's
\* symbol, OrderModified otherwise; nothing else is emitted for the order.
C37_Outcome ==
    LET id == last_op'.order_id
        f == Len(events) + 1
    IN  /\ Len(events') >= f
        /\ events'[f].order_id = id
        /\ events'[f].kind = IF C17_Rejects(orders[id], market[orders[id].symbol])
                             THEN "OrderRejected" ELSE "OrderModified"
        /\ NewEventsAbout(id) = {f}

\* C37 as stated: the outcome of modify_order on a working order (OrderModified
\* or OrderRejected) depends only on the stored order's original price and the
\* latest tick of its symbol: the command's modified_price is never validated
\* against the min-stop or min-limit distance, and the modified_quantity is
\* never checked against the instrument's min and max trade size.
C37_ModifyOutcome ==
    [][(IsModifyStep /\ InSeq(working_orders, last_op'.order_id))
          => C37_Outcome]_vars

\* C37 as amended: the same for a modified_quantity other than 0; with a
\* modified_quantity of 0 the call ends before the price validation and neither
\* OrderModified nor OrderRejected is emitted.
C37_ModifyOutcomeNonZero ==
    [][(IsModifyStep /\ InSeq(working_orders, last_op'.order_id))
          => IF last_op'.modified_quantity # 0
             THEN C37_Outcome
             ELSE NewEventsOf(last_op'.order_id, {"OrderModified", "OrderRejected"})
                     = {}]_vars

\* C37 happens: a working order has been modified to a quantity above the
\* maximum trade size and to a price that would not pass the validation.
C37_Witness ==
    /\ last_op.kind = "modify_order"
    /\ Len(events) = last_op.first_event
    /\ \E id \in OrderIds :
          /\ id = last_op.order_id
          /\ events[Len(events)].kind = "OrderModified"
          /\ events[Len(events)].order_id = id
          /\ events[Len(events)].quantity > Instruments[orders[id].symbol].max_trade_size
          /\ C17_Rejects([orders[id] EXCEPT !.price = events[Len(events)].price],
                         market[orders[id].symbol])
          /\ ~C17_Rejects(orders[id], market[orders[id].symbol])
          /\ InSeq(working_orders, id)

\* A working order whose stored price no longer passes the validation has been
\* rejected on a modify_order to a quantity within the trade sizes and a price
\* that would pass.
C37_RejectedForStoredPrice ==
    /\ last_op.kind = "modify_order"
    /\ \E id \in OrderIds :
          /\ id = last_op.order_id
          /\ events[Len(events)].kind = "OrderRejected"
          /\ events[Len(events)].order_id = id
          /\ last_op.modified_quantity = 3
          /\ ~C17_Rejects([orders[id] EXCEPT !.price = last_op.modified_price],
                          market[orders[id].symbol])
          /\ C17_Rejects(orders[id], market[orders[id].symbol])

\* The order has been cancelled while it held its child orders (it had not been
\* rejected before), as the log after the step under way has it.
CancelledAfterStep(id) ==
    /\ \E i \in 1..Len(events') :
          events'[i].order_id = id /\ events'[i].kind = "OrderCancelled"
    /\ \A i \in 1..Len(events') :
          events'[i].order_id = id => events'[i].kind # "OrderRejected"

\* C38: cancel_order on the working entry order of an atomic order removes only
\* the entry: atomic_child_orders keeps the entry's child list and oco_orders
\* keeps the two entries linking the children, no event is emitted for the
\* children, and the children never enter working_orders afterwards.
C38_CancelledEntryKeepsChildren ==
    [][/\ (/\ IsCancelStep
           /\ InSeq(working_orders, last_op'.order_id)
           /\ atomic_child_orders[last_op'.order_id] # <<>>)
             => LET id == last_op'.order_id
                IN  /\ working_orders' = Remove(working_orders, id)
                    /\ atomic_child_orders' = atomic_child_orders
                    /\ oco_orders' = oco_orders
                    /\ Len(events') = Len(events) + 1
                    /\ events'[Len(events')].order_id = id
                    /\ events'[Len(events')].kind = "OrderCancelled"
       /\ \A e, c \in OrderIds :
             (entry_of'[c] = e /\ CancelledAfterStep(e))
                 => /\ ~InSeq(working_orders', c)
                    /\ InSeq(atomic_child_orders'[e], c)
                    /\ \A i \in 1..Len(events') :
                          events'[i].order_id = c
                              => events'[i].kind = "OrderCancelReject"
                    /\ \A d \in OrderIds :
                          (d # c /\ entry_of'[d] = e) => oco_orders'[c] = d]_vars

\* C38 happens: the working entry of an atomic order with both children has
\* been cancelled, and a later tick that would have filled the entry has left
\* the children held and linked.
C38_Witness ==
    /\ last_op.kind = "process_tick"
    /\ \E e, c, d \in OrderIds :
          /\ c # d /\ entry_of[c] = e /\ entry_of[d] = e
          /\ Emitted(e, "OrderCancelled")
          /\ orders[e].symbol = last_op.symbol
          /\ C14_FillCondition(orders[e], last_op.quote)
          /\ \A i \in EventsOf(e, {"OrderCancelled"}) : i < last_op.first_event
          /\ atomic_child_orders[e] = <<c, d>>
          /\ oco_orders[c] = d /\ oco_orders[d] = c
          /\ working_orders = <<>>

\* An order that is no key of working_orders before the step under way and
\* becomes working in it.
EntersWorkingOrders(id) ==
    ~InSeq(working_orders, id) /\ NewEventsOf(id, {"OrderWorking"}) # {}

\* C39: the order scan of process_tick works on a snapshot of working_orders
\* taken before the scan: a child order that enters working_orders during the
\* scan, because its entry order filled on this tick, is neither filled nor
\* expired on this tick even when the tick satisfies its fill test; it is first
\* evaluated on the next tick for its symbol.
C39_ScanOfSnapshot ==
    [][IsTickStep =>
        \A id \in OrderIds :
            /\ EntersWorkingOrders(id)
                  => /\ entry_of[id] # NoOrderId
                     /\ NewEventsOf(entry_of[id], {"OrderFilled"}) # {}
                     /\ NewEventsOf(id, {"OrderFilled", "OrderExpired"}) = {}
            /\ NewEventsOf(id, {"OrderFilled", "OrderExpired"}) # {}
                  => InSeq(working_orders, id)
            /\ (/\ InSeq(working_orders, id)
                /\ orders[id].symbol = last_op'.symbol
                /\ order_state[id] = "WORKING"
                /\ ~CancelledBeforeTurn(id)
                /\ PassesFillTest(id))
                  => NewEventsOf(id, {"OrderFilled"}) # {}]_vars

\* C39 happens: the tick that filled the entry has worked a child whose fill
\* test it passes and whose expire_time it has reached; the child is still in
\* working_orders, neither filled nor expired.
C39_Witness ==
    /\ last_op.kind = "process_tick"
    /\ \E c \in OrderIds :
          /\ entry_of[c] # NoOrderId
          /\ \E i \in EventsOf(entry_of[c], {"OrderFilled"}) : i \in EventsOfLastOp
          /\ \E i \in EventsOf(c, {"OrderWorking"}) : i \in EventsOfLastOp
          /\ orders[c].symbol = last_op.symbol
          /\ C14_FillCondition(orders[c], last_op.quote)
          /\ orders[c].expire_time # NoTime
          /\ clock >= orders[c].expire_time
          /\ InSeq(working_orders, c)
          /\ order_state[c] = "WORKING"
          /\ ~Emitted(c, "OrderFilled") /\ ~Emitted(c, "OrderExpired")

\* The child is filled by the next tick of its symbol, later than the tick that
\* worked it.
C39_FilledOnNextTick ==
    /\ last_op.kind = "process_tick"
    /\ \E c \in OrderIds :
          /\ entry_of[c] # NoOrderId
          /\ Emitted(entry_of[c], "OrderWorking")
          /\ \E i \in EventsOf(c, {"OrderWorking"}), j \in EventsOf(c, {"OrderFilled"}) :
                /\ j \in EventsOfLastOp
                /\ events[i].timestamp < events[j].timestamp
                /\ \E k \in EventsOf(entry_of[c], {"OrderFilled"}) :
                      events[k].timestamp = events[i].timestamp

====
